---- MODULE Spec2Model ----
(***************************************************************************)
(* State-machine model of the feature-based scheduler: the target-deficit  *)
(* basis function (rolling_funcs.py), the block survey (surveys/to_port.py)*)
(* and the scheduler that arbitrates between surveys, driven through its   *)
(* update / request / add / flush protocol (utils.py, sim_runner).         *)
(***************************************************************************)
EXTENDS Integers, Sequences, FiniteSets, TLC

(***************************************************************************)
(* Bounds of the exploration.                                              *)
(***************************************************************************)
NCell == 6        \* healpixels of the sky map (hp.nside2npix(nside))
MaxNight == 1     \* nights a snapshot can report
MaxObs == 1       \* completed observations fed back through add_observation
MaxBlocks == 2    \* blocks the surveys produce in a run
NSnap == 7        \* distinct snapshots the observatory can report
MaxAddAt == 2     \* observations recorded before a call for a restricted list
MaxAdd == 5       \* observations recorded in the basis-function specification
MaxCalls == 3     \* calls of set_default_nside in a process
MaxAvail == 3     \* time left before twilight, in block times

(***************************************************************************)
(* Reward values.  Rewards are floats in the program; the model keeps the  *)
(* integers, with the three special floats encoded so that the float order *)
(*      -inf  <  hp.UNSEEN (-1.6375e30)  <  ordinary rewards  <  +inf      *)
(* is the integer order.                                                   *)
(***************************************************************************)
PosInf == 9999
NegInf == -9999
UNSEEN == -5000
NaN == 7777

IsInf(a) == a = PosInf \/ a = NegInf
IsSpecial(a) == IsInf(a) \/ a = UNSEEN \/ a = NaN

\* float addition
VAdd(a, b) ==
    IF a = NaN \/ b = NaN THEN NaN
    ELSE IF (a = PosInf /\ b = NegInf) \/ (a = NegInf /\ b = PosInf) THEN NaN
    ELSE IF a = PosInf \/ b = PosInf THEN PosInf
    ELSE IF a = NegInf \/ b = NegInf THEN NegInf
    ELSE IF a = UNSEEN \/ b = UNSEEN THEN UNSEEN
    ELSE a + b

\* float product with a positive finite weight
VMul(a, w) == IF IsSpecial(a) THEN a ELSE a * w

Cells == 0 .. (NCell - 1)
Filters == {"r", "g"}
None == "None"

SetMax(S) == CHOOSE x \in S : \A y \in S : y <= x
SetMin(S) == CHOOSE x \in S : \A y \in S : x <= y

RECURSIVE SetToSeq(_)
\* the elements of a set of integers in ascending order (np.unique, np.where)
SetToSeq(S) == IF S = {} THEN << >> ELSE <<SetMin(S)>> \o SetToSeq(S \ {SetMin(S)})

RECURSIVE SeqSum(_)
SeqSum(s) == IF s = << >> THEN 0 ELSE Head(s) + SeqSum(Tail(s))

Range(s) == {s[i] : i \in DOMAIN s}

\* a function with its values computed once (an array filled in, in the program)
Array(f) == f @@ << >>

(***************************************************************************)
(* Target_map_modulo_basis_function (basis_functions/rolling_funcs.py).    *)
(***************************************************************************)
season_modulo == 2
max_season == 1
out_of_bounds_val == -10
SeasonLength == 1

\* the per-healpixel offset handed to the constructor: odd healpixels run one
\* season ahead of the even ones
day_offset == [c \in Cells |-> IF c % 2 = 1 THEN SeasonLength ELSE 0]

\* utils.season_calc: the season of healpixel c on a night; seasons past
\* max_season (before the modulo) are season -1
season_calc(night, c) ==
    LET raw == (night + day_offset[c]) \div SeasonLength
    IN IF raw > max_season THEN -1 ELSE raw % season_modulo

\* the seasons for which __init__ creates the features N_obs_%i and
\* N_obs_count_all_%i: one per target map but the last, and -1
FeatureSeasons(maps) == (0 .. (Len(maps) - 2)) \cup {-1}

\* Python list indexing target_maps[season], season -1 being the last map
HasMap(maps, season) == season = -1 \/ (season >= 0 /\ season < Len(maps))
\* a lookup that sends season -1 to the first map instead of the last
MapOfFirst(maps, season) == IF season = -1 THEN maps[1] ELSE maps[season + 1]

MapOf(maps, season) == IF season = -1 THEN maps[Len(maps)] ELSE maps[season + 1]

\* self.result: np.zeros(npix)
ZeroMap == [c \in Cells |-> 0]

\* self.out_of_bounds_area: where the FIRST target map is zero
out_of_bounds_area(maps) == {c \in Cells : maps[1][c] = 0}

\* a goal that leaves the normalisation out
GoalUnscaled(target, count_all, norm) == target * count_all

\* a goal that does not follow the season's total
GoalFlat(target, count_all, norm) == target * norm

\* line 129: the number of observations wanted at a healpixel by now
GoalN(target, count_all, norm) == target * count_all * norm

\* the arrays being self.result itself, not copies
ResultShared(template, value) == value

\* lines 110, 118-122: the arrays _calc_value works on are COPIES of self.result
ResultAfterCall(template, value) == template

\* lines 124-129, for the seasons still to do (np.unique order).  The composite
\* arrays have one slot per entry of indx (slots 0..k-1) and are indexed by
\* the healpixel numbers of the season, as the code does.
RECURSIVE SeasonLoop(_, _, _, _, _)
SeasonLoop(u, night, k, seasons, acc) ==
    IF seasons = << >> \/ acc.exc # "none" THEN acc
    ELSE
      LET season == Head(seasons)
          season_indx == {c \in Cells : season_calc(night, c) = season}
      IN IF ~HasMap(u.target_maps, season) \/ (\E c \in season_indx : c >= k)
         THEN [acc EXCEPT !.exc = "IndexError"]
         ELSE IF season \notin FeatureSeasons(u.target_maps)
         THEN [acc EXCEPT !.exc = "KeyError"]
         ELSE
           LET tgt == Array([i \in 0 .. (k - 1) |->
                         IF i \in season_indx THEN MapOf(u.target_maps, season)[i]
                         ELSE acc.target[i]])
           IN SeasonLoop(u, night, k, Tail(seasons),
                [exc |-> "none",
                 target |-> tgt,
                 nobs |-> Array([i \in 0 .. (k - 1) |->
                             IF i \in season_indx THEN u.N_obs[season][i]
                             ELSE acc.nobs[i]]),
                 goal |-> Array([i \in 0 .. (k - 1) |->
                             IF i \in season_indx
                             THEN GoalN(tgt[i], u.N_obs_count_all[season], u.norm_factor)
                             ELSE acc.goal[i]])])

\* Target_map_modulo_basis_function._calc_value(conditions, indx); indx is the
\* sequence of healpixels asked for (all_indx when the caller gives none).
\* Returns the reward map, the exception raised if any, and self.result as
\* the call leaves it.
all_indx == SetToSeq(Cells)
_calc_value(u, night, indx) ==
    LET k == Len(indx)
        seasons == SetToSeq({season_calc(night, c) : c \in Cells})
        Start(zero) == SeasonLoop(u, night, k, seasons,
                           [exc |-> "none", target |-> zero, nobs |-> zero, goal |-> zero])
        \* lines 131-141, from the composite arrays the loop leaves
        Finish(comp) ==
            LET exc == IF comp.exc # "none" THEN comp.exc
                       ELSE IF \E j \in 1 .. k : indx[j] >= k THEN "IndexError"
                       ELSE "none"
                Bound(diff) == Array([c \in Cells |->
                           IF c \in out_of_bounds_area(u.target_maps) THEN out_of_bounds_val
                           ELSE diff[c]])
                Pack(value) == [exc |-> exc, value |-> value,
                                result |-> ResultAfterCall(u.result, value)]
            IN Pack(Bound(Array([c \in Cells |->
                   IF exc = "none" /\ (\E j \in 1 .. k : indx[j] = c)
                   THEN LET j == CHOOSE j \in 1 .. k : indx[j] = c
                        IN comp.goal[j - 1] - comp.nobs[indx[j]]
                   ELSE u.result[c]])))
    IN Finish(Start(Array([i \in 0 .. (k - 1) |-> u.result[indx[i + 1]]])))

\* features.N_observations_season / N_obs_count_season .add_observation: an
\* observation in filter filt covering the healpixels indx on a night.  The
\* per-healpixel count of a season is kept for the unit's own filter, the
\* per-season total for every filter.
FeatureAddNobs(nobs, unit_filter, filt, night, indx) ==
    [s \in DOMAIN nobs |-> [c \in Cells |->
        IF c \in indx /\ season_calc(night, c) = s /\ filt = unit_filter
        THEN nobs[s][c] + 1 ELSE nobs[s][c]]]

FeatureAddCount(cnt, night, indx) ==
    [s \in DOMAIN cnt |->
        IF \E c \in indx : season_calc(night, c) = s THEN cnt[s] + 1 ELSE cnt[s]]

(***************************************************************************)
(* Snapshots (the conditions the observatory reports) and the configuration*)
(* of the surveys (driver/config/config.py builds the list of surveys).    *)
(***************************************************************************)
NSky == 7
\* the value the sky-quality basis function (an M5_diff-like unit, outside
\* these sources) returns for a snapshot: data and mask of a masked array
SkyData(sky) == Array([c \in Cells |->
    CASE sky = 0 -> c % 3
      [] sky = 1 -> IF c = 0 THEN NegInf ELSE 1
      [] sky = 2 -> IF c = 1 THEN 5 ELSE IF c = NCell - 1 THEN 30 ELSE c % 2
      [] sky = 3 -> IF c = NCell - 1 THEN PosInf ELSE 0
      [] sky = 4 -> IF c = 0 THEN UNSEEN ELSE 1
      [] sky = 5 -> 1
      [] sky = 6 -> IF c = 2 THEN 1 ELSE UNSEEN
      [] sky = NSky -> IF c = NCell - 1 THEN 1 - out_of_bounds_val ELSE 1
      [] OTHER -> UNSEEN])
SkyMask(sky) == Array([c \in Cells |-> sky = 5 /\ c = 1])

\* the value an avoidance-zone basis function (outside these sources) returns:
\* a masked array of zeros, masked inside the zone
ZoneMask(zone) == Array([c \in Cells |-> zone = 2 /\ c = 2])

\* what the feasibility gate reads: both filters mounted in the dark with
\* time for a pair; the sun too high; one filter mounted and time for a
\* single block only
GateCases == <<[mounted |-> {"r", "g"}, sunAlt |-> -20, avail |-> 2],
               [mounted |-> {"r", "g"}, sunAlt |-> -18, avail |-> 2],
               [mounted |-> {"g"}, sunAlt |-> -20, avail |-> 1]>>
GateOrder == <<1, 2, 3, 1, 1, 3>>

\* the k-th snapshot of the catalogue of snapshots the observatory reports
SnapOf(k) ==
    LET g == GateCases[GateOrder[(k % Len(GateOrder)) + 1]]
    IN [night |-> k % (MaxNight + 1),
        mjd |-> k,
        next_twilight_start |-> k + g.avail,
        mounted |-> g.mounted,
        sunAlt |-> g.sunAlt,
        current_filter |-> IF k % 3 = 1 THEN "g" ELSE "r",
        sky |-> k % NSky,
        zone |-> (k \div 2) % 3,
        rot |-> (k \div 4) % 2]
Snapshots == {SnapOf(k) : k \in 0 .. (NSnap - 1)}

NSurveys == 2
Surveys == 1 .. NSurveys
filtername(sv) == IF sv % 2 = 1 THEN "r" ELSE "g"
filter2(sv) == IF sv % 2 = 1 THEN "g" ELSE None
\* the weights of the sky-quality unit, the target-deficit unit and the
\* avoidance-zone unit
basis_weights(sv) == <<1, sv, 1>>
\* a block survey built beside the scheduler's list is a tagged pair
tag_fields(sv) == sv % 2 = 0 \/ sv > NSurveys
\* the tag maps: tag 0 on the last healpixel, and for the tagged pair on the
\* two healpixels of a field inside every footprint
tag_map(sv) == IF sv > NSurveys THEN [c \in Cells |-> IF c \in {1, 2} THEN 0 ELSE 2]
               ELSE [c \in Cells |-> IF c = NCell - 1 THEN 0 ELSE 2]
survey_note == "block"
nvisit_block == 2
sun_alt_limit == -19
\* to_port.py 429-432: a pair needs twice the block time
time_needed(sv) == IF filter2(sv) # None THEN 2 ELSE 1
filter_set(sv) == {filtername(sv)}
filter2_set(sv) == IF filter2(sv) = None THEN filter_set(sv) ELSE {filter2(sv)}

\* the snapshots the feasibility gate is taken through: every set of mounted
\* filters, the sun below, at and above the limit, and every time left
\* before twilight up to MaxAvail
GateSnapshots ==
    {[SnapOf(0) EXCEPT !.mounted = m, !.sunAlt = a,
                              !.next_twilight_start = SnapOf(0).mjd + t] :
        m \in SUBSET {"r", "g"},
        a \in {sun_alt_limit - 1, sun_alt_limit, sun_alt_limit + 1},
        t \in 0 .. MaxAvail}

\* the snapshots the choice of the alt,az mask is taken through: the gate
\* open, every sky of the catalogue and the one past it, every rotation of
\* the sky, every avoidance zone and every night
MaskSnapshots ==
    {[SnapOf(0) EXCEPT !.sky = s, !.rot = r, !.zone = z, !.night = n] :
        s \in 0 .. NSky, r \in 0 .. 1, z \in 0 .. 2, n \in 0 .. MaxNight}

\* Greedy_survey_fields._hp2fieldsetup: the field each healpixel belongs to
hp2fields == [c \in Cells |-> (c + 1) \div 2]
FieldIds == {hp2fields[c] : c \in Cells}
NMasks == 2
\* alt_az_masks, and hp.get_interp_val(alt_az_mask, pi/2 - alt, az) > 0: the
\* healpixels that are inside alt,az mask m under the snapshot's sky rotation
MaskPos(m) == IF m = 1 THEN {p \in Cells : p < NCell - 1}
              ELSE {p \in Cells : p >= NCell - 2}
mask_to_radec(m, cond) == {c \in Cells : ((c + cond.rot) % NCell) \in MaskPos(m)}

\* the target maps the surveys' target-deficit units are built with
DefaultMaps == <<[c \in Cells |-> IF c = NCell - 1 THEN 0 ELSE 1],
                 [c \in Cells |-> IF c = 1 THEN 0 ELSE 1],
                 [c \in Cells |-> IF c = 0 THEN 0 ELSE 2]>>

(***************************************************************************)
(* Block_survey (surveys/to_port.py).                                      *)
(***************************************************************************)
ScalarReward(v) == [scalar |-> TRUE, val |-> v, data |-> ZeroMap,
                    mask |-> [c \in Cells |-> FALSE]]
MapReward(d, m) == [scalar |-> FALSE, val |-> 0, data |-> d, mask |-> m]

UnsetFields == [kind |-> "unset", f |-> << >>]
ZeroFields == [kind |-> "zero", f |-> << >>]
SomeFields(fs) == [kind |-> "fields", f |-> fs]

\* a gate that also closes when the sun is exactly at the limit
CheckFeasabilityStrict(sv, cond) ==
    /\ filter_set(sv) \subseteq cond.mounted
    /\ filter2_set(sv) \subseteq cond.mounted
    /\ cond.sunAlt < sun_alt_limit
    /\ cond.next_twilight_start - cond.mjd >= time_needed(sv)

\* Block_survey._check_feasability
_check_feasability(sv, cond) ==
    LET first_mounted == filter_set(sv) \subseteq cond.mounted
        filters_mounted == IF filter2(sv) # None
                           THEN first_mounted /\ (filter2_set(sv) \subseteq cond.mounted)
                           ELSE first_mounted
        available_time == cond.next_twilight_start - cond.mjd
    IN IF ~filters_mounted THEN FALSE
       ELSE IF cond.sunAlt > sun_alt_limit THEN FALSE
       ELSE IF available_time < time_needed(sv) THEN FALSE
       ELSE TRUE

\* an accumulator that starts from the reward map of the call before
CarriedReward(st) == IF st.reward.scalar THEN ZeroMap ELSE st.reward.data

\* line 478, self.reward = 0: the accumulator the basis values are added to
InitialReward(st) == ZeroMap

\* a mask that leaves out what the basis functions report masked
ValueMask(vals) ==
    Array([c \in Cells |-> \E i \in DOMAIN vals : vals[i].data[c] = UNSEEN])

\* lines 481-486: a healpixel is masked when some basis function returns
\* hp.UNSEEN there or reports it masked
CumulativeMask(vals) ==
    Array([c \in Cells |-> \E i \in DOMAIN vals : vals[i].data[c] = UNSEEN \/ vals[i].mask[c]])

RECURSIVE WeightedSum(_, _, _, _)
\* line 487, self.reward += basis_value*weight, for the basis functions from i on
WeightedSum(acc, vals, weights, i) ==
    IF i > Len(vals) THEN acc
    ELSE WeightedSum(Array([c \in Cells |-> VAdd(acc[c], VMul(vals[i].data[c], weights[i]))]),
                     vals, weights, i + 1)

\* lines 478-493: the composite reward, masked healpixels set to hp.UNSEEN
CompositeReward(sv, st, vals) ==
    LET mask == CumulativeMask(vals)
        total == WeightedSum(InitialReward(st), vals, basis_weights(sv), 1)
    IN MapReward(Array([c \in Cells |-> IF mask[c] THEN UNSEEN ELSE total[c]]), mask)

\* line 495, np.any(np.isinf(self.reward)): masked entries do not count
AnyInf(reward) == \E c \in Cells : ~reward.mask[c] /\ IsInf(reward.data[c])

\* utils.max_reject over the healpixels of a field: the largest value that
\* is not hp.UNSEEN
max_reject(vals) == IF vals \ {UNSEEN} = {} THEN NegInf ELSE SetMax(vals \ {UNSEEN})

RECURSIVE BottomFields(_, _, _)
\* an order that takes the lowest rewards first
BottomFields(fields, rbf, n) ==
    IF n = 0 \/ fields = {} THEN << >>
    ELSE LET worst == SetMin({rbf[f] : f \in fields})
             f == SetMin({g \in fields : rbf[g] = worst})
         IN <<f>> \o BottomFields(fields \ {f}, rbf, n - 1)

RECURSIVE TopFields(_, _, _)
\* line 538, np.argsort(reward_by_field)[::-1][0:n]: the fields by descending
\* reward; the ascending sort reversed puts the higher index first among equals
TopFields(fields, rbf, n) ==
    IF n = 0 \/ fields = {} THEN << >>
    ELSE LET best == SetMax({rbf[f] : f \in fields})
             f == SetMax({g \in fields : rbf[g] = best})
         IN <<f>> \o TopFields(fields \ {f}, rbf, n - 1)

RECURSIVE VSum(_)
VSum(s) == IF s = << >> THEN 0 ELSE VAdd(Head(s), VSum(Tail(s)))

\* lines 505-540, one pass of the loop: alt,az mask m applied to the reward
Blob(m, reward, cond) ==
    LET good == {c \in Cells : reward.data[c] # UNSEEN /\ ~reward.mask[c]
                               /\ c \in mask_to_radec(m, cond)}
        reward_map == Array([c \in Cells |-> IF c \in good THEN reward.data[c] ELSE UNSEEN])
        ufields == {hp2fields[c] : c \in good}
        reward_by_field == Array([f \in ufields |->
                              max_reject({reward.data[c] : c \in {d \in Cells : hp2fields[d] = f}})])
        good_fields == {f \in ufields : reward_by_field[f] > NegInf}
        top == TopFields(good_fields, reward_by_field, nvisit_block)
    IN IF Cardinality(good_fields) < nvisit_block
       THEN [map |-> reward_map, pointings |-> ZeroFields, potential |-> NegInf]
       ELSE [map |-> reward_map, pointings |-> SomeFields(top),
             potential |-> VSum([i \in 1 .. Len(top) |-> reward_by_field[top[i]]])]

\* a choice of the alt,az mask with the lowest potential reward
worst_blob(blobs) ==
    LET low == SetMin({blobs[m].potential : m \in DOMAIN blobs})
    IN SetMin({m \in DOMAIN blobs : blobs[m].potential = low})

\* a choice that takes the last of the alt,az masks with the highest potential
last_blob(blobs) ==
    LET top == SetMax({blobs[m].potential : m \in DOMAIN blobs})
    IN SetMax({m \in DOMAIN blobs : blobs[m].potential = top})

\* line 542: np.min(np.where(potential_rewards == np.max(potential_rewards)))
best_blob(blobs) ==
    LET top == SetMax({blobs[m].potential : m \in DOMAIN blobs})
    IN SetMin({m \in DOMAIN blobs : blobs[m].potential = top})

\* an infeasible survey that keeps the reward it had
KeptReward(st) == st.reward

\* line 551: the reward of a survey that is not feasible
InfeasibleReward(st) == ScalarReward(NegInf)

\* Block_survey.calc_reward_function.  st is the survey object (reward_checked,
\* reward, best_fields, counter), bv what its basis functions return when
\* called (they are called only when the survey is feasible).
\* Returns the object as the call leaves it and the exception raised, if any.
calc_reward_function(sv, st, cond, bv) ==
    LET \* lines 495-549, from the composite reward of lines 478-493
        Select(composite) ==
            LET Pick(blobs, b) ==
                  [st |-> [st EXCEPT !.reward_checked = TRUE,
                                     !.reward = MapReward(blobs[b].map, composite.mask),
                                     !.best_fields = blobs[b].pointings],
                   exc |-> "none"]
                Best(blobs) == Pick(blobs, best_blob(blobs))
            IN IF AnyInf(composite)
               \* self.reward = np.inf, a float: self.reward[good] raises in the
               \* first pass of the loop over the alt,az masks
               THEN [st |-> [st EXCEPT !.reward_checked = TRUE,
                                       !.reward = ScalarReward(PosInf)],
                     exc |-> "TypeError"]
               ELSE Best(Array([m \in 1 .. NMasks |-> Blob(m, composite, cond)]))
    IN IF _check_feasability(sv, cond)
       THEN IF bv.exc # "none"
            THEN [st |-> [st EXCEPT !.reward_checked = TRUE], exc |-> bv.exc]
            ELSE Select(CompositeReward(sv, st, bv.vals))
       ELSE [st |-> [st EXCEPT !.reward_checked = TRUE, !.reward = InfeasibleReward(st)],
             exc |-> "none"]

\* utils.empty_observation with the fields the surveys fill in
Obs(field, filt, note, sid, bid) ==
    [field |-> field, filter |-> filt, note |-> note, survey_id |-> sid, block_id |-> bid]
NoneObs == Obs(-1, None, "", 0, 0)

\* lines 597, 611: np.unique(self.tag_map[np.where(self.hp2fields == field)])[0]
TagOf(sv, field) == SetMin({tag_map(sv)[c] : c \in {d \in Cells : hp2fields[d] = field}})

RECURSIVE FirstPassAll(_, _, _, _)
\* a first pass that skips no field
FirstPassAll(sv, st, order, i) ==
    IF i > Len(order) THEN << >>
    ELSE LET field == st.best_fields.f[order[i]]
             tag == IF tag_fields(sv) THEN TagOf(sv, field) ELSE 1
         IN <<Obs(field, filtername(sv), survey_note, tag, st.counter)>>
            \o FirstPassAll(sv, st, order, i + 1)

RECURSIVE FirstPass(_, _, _, _)
\* lines 594-617: the observations of the block in route order, from the i-th
\* entry of better_order on; fields tagged 0 are skipped
FirstPass(sv, st, order, i) ==
    IF i > Len(order) THEN << >>
    ELSE LET field == st.best_fields.f[order[i]]
             tag == IF tag_fields(sv) THEN TagOf(sv, field) ELSE 1
         IN (IF tag = 0 THEN << >>
             ELSE <<Obs(field, filtername(sv), survey_note, tag, st.counter)>>)
            \o FirstPass(sv, st, order, i + 1)

\* a pairing that always puts the pass in filtername first
PairUpFirst(sv, observations, cond) ==
    IF filter2(sv) = None THEN observations
    ELSE observations \o [i \in 1 .. Len(observations) |->
                            [observations[i] EXCEPT !.filter = filter2(sv)]]

\* lines 619-640: the second pass in filter2, the order of the passes and
\* the notes 'a' and 'b'
PairUp(sv, observations, cond) ==
    IF filter2(sv) = None THEN observations
    ELSE LET paired == [i \in 1 .. Len(observations) |->
                          [observations[i] EXCEPT !.filter = filter2(sv)]]
             both == IF cond.current_filter = filter2(sv)
                     THEN paired \o observations
                     ELSE observations \o paired
         IN [i \in 1 .. Len(both) |->
               IF i <= nvisit_block THEN [both[i] EXCEPT !.note = "block, a"]
               ELSE IF i <= 2 * nvisit_block THEN [both[i] EXCEPT !.note = "block, b"]
               ELSE both[i]]

\* a counter that stays where it is
SameCounter(counter) == counter

\* line 647, self.counter += 1
NextCounter(counter) == counter + 1

\* the visiting orders tsp_convex can return for n towns
Routes(n) == {p \in [1 .. n -> 1 .. n] : \A i, j \in 1 .. n : p[i] = p[j] => i = j}

\* Block_survey.__call__, with better_order the route tsp_convex returns.
\* Returns the survey object as the call leaves it, the list of
\* observations and the exception raised, if any.
BlockCall(sv, st, cond, bv, better_order) ==
    LET \* lines 562-648, c being the survey after lines 558-559
        Emit(c) ==
            LET Label(result) ==
                  \* lines 637-640 index result up to 2*nvisit_block - 1
                  IF filter2(sv) # None /\ Len(result) < 2 * nvisit_block
                  THEN [st |-> c.st, result |-> << >>, exc |-> "IndexError"]
                  ELSE [st |-> [c.st EXCEPT !.counter = NextCounter(@)], result |-> result,
                        exc |-> "none"]
            IN IF c.exc # "none" THEN [st |-> c.st, result |-> << >>, exc |-> c.exc]
               \* self.best_fields was never assigned
               ELSE IF c.st.best_fields.kind = "unset"
               THEN [st |-> c.st, result |-> << >>, exc |-> "AttributeError"]
               \* self.best_fields is the integer 0, which cannot be routed or indexed
               ELSE IF c.st.best_fields.kind = "zero"
               THEN [st |-> c.st, result |-> << >>, exc |-> "TypeError"]
               ELSE Label(PairUp(sv, FirstPass(sv, c.st, better_order, 1), cond))
    IN Emit(IF ~st.reward_checked THEN calc_reward_function(sv, st, cond, bv)
            ELSE [st |-> st, exc |-> "none"])

(***************************************************************************)
(* The single-survey reductions (surveys/to_port.py).  The reward map they  *)
(* reduce is what BaseSurvey.calc_reward_function returns: a masked array   *)
(* whose masked entries hold hp.UNSEEN, given here by its data.             *)
(***************************************************************************)
block_size == 2
npick == 2
percentile_clip == 50
max_region_size == 2
search_radius == 2
\* Vary_expt_survey: the block time in units of the time one field takes
\* (exposure scaled by utils.scale_exptime, plus overhead)
block_time == 2

\* the values of a healpixel of the reward maps the reductions are given
RewardLevels == {UNSEEN, 1, 2, 3}
RewardMaps == [Cells -> RewardLevels]

\* the angular distance of two healpixels (the healpixels are on a ring)
RingDist(a, b) ==
    LET d == IF a > b THEN a - b ELSE b - a
    IN IF d > NCell - d THEN NCell - d ELSE d

\* _raDec2Hpid of the field centres: the healpixel a field's centre is in
field_hp == [f \in FieldIds |-> SetMin({c \in Cells : hp2fields[c] = f})]

\* np.where(reward != hp.UNSEEN)
Unmasked(reward) == {c \in Cells : reward[c] # UNSEEN}

\* one observation per field, in filter filt
FieldObs(fields, filt) == [i \in 1 .. Len(fields) |-> Obs(fields[i], filt, "", 0, 0)]

\* Simple_greedy_survey_fields.__call__, lines 325-342: masked fields are
\* given -inf (line 328) and the first block_size of the descending order
\* are observed
SimpleGreedy(reward) ==
    LET reward_fields == [f \in FieldIds |->
            IF reward[field_hp[f]] = UNSEEN THEN NegInf ELSE reward[field_hp[f]]]
    IN [exc |-> "none", reward |-> reward,
        result |-> TopFields(FieldIds, reward_fields, block_size)]

\* Greedy_survey_comcam.__call__, lines 750-770.  np.argsort of a masked
\* array sorts the masked entries as the largest (endwith=True), so the
\* reversed order starts with them
Comcam(reward) ==
    LET key == [c \in Cells |-> IF reward[c] = UNSEEN THEN PosInf ELSE reward[c]]
        best_hp == Range(TopFields(Cells, key, block_size))
    IN [exc |-> "none", reward |-> reward,
        result |-> SetToSeq({hp2fields[c] : c \in best_hp})]

RECURSIVE SortedValues(_, _)
\* the rewards of a set of healpixels in ascending order
SortedValues(cells, reward) ==
    IF cells = {} THEN << >>
    ELSE LET low == SetMin({reward[c] : c \in cells})
             c == CHOOSE c \in cells : reward[c] = low
         IN <<low>> \o SortedValues(cells \ {c}, reward)

\* np.percentile(v, q) times 100, v ascending and not empty: linear
\* interpolation between the two nearest ranks
Percentile100(v, q) ==
    LET d == q * (Len(v) - 1)
        i == d \div 100
        r == d % 100
    IN IF r = 0 THEN 100 * v[i + 1]
       ELSE 100 * v[i + 1] + r * (v[i + 2] - v[i + 1])

\* Smooth_area_survey.__call__, lines 261-282: the healpixels handed to the
\* placement (to_observe).  np.percentile of an empty array raises
\* IndexError or returns nan, depending on the numpy in use (on_empty).
SmoothArea(reward, on_empty) ==
    LET unmasked == Unmasked(reward)
        reward_max == SetMin({c \in Cells : reward[c] = SetMax(Range(reward))})
        pix_in_disk == {c \in Cells : RingDist(c, reward_max) <= max_region_size}
        Clip(threshold) ==
            LET selected == {c \in unmasked : 100 * reward[c] >= threshold}
                               \cap pix_in_disk
            IN IF Cardinality(selected) > block_size
               THEN Range(TopFields(selected, reward, block_size))
               ELSE selected
    IN IF unmasked = {}
       THEN IF on_empty = "raise"
            THEN [exc |-> "IndexError", reward |-> reward, result |-> << >>]
            ELSE [exc |-> "none", reward |-> reward, result |-> << >>]
       ELSE [exc |-> "none", reward |-> reward,
             result |-> SetToSeq(Clip(Percentile100(SortedValues(unmasked, reward),
                                                    percentile_clip)))]

RECURSIVE SumOver(_, _)
SumOver(cells, reward) ==
    IF cells = {} THEN 0
    ELSE LET c == CHOOSE c \in cells : TRUE
         IN reward[c] + SumOver(cells \ {c}, reward)

RECURSIVE Nearest(_, _, _)
\* np.argsort(ang_distances)[0:n]: the n fields nearest to the field centre
\* is in, the lower index first among equals
Nearest(fields, centre, n) ==
    IF n = 0 \/ fields = {} THEN {}
    ELSE LET near == SetMin({RingDist(field_hp[f], field_hp[centre]) : f \in fields})
             f == SetMin({g \in fields : RingDist(field_hp[g], field_hp[centre]) = near})
         IN {f} \cup Nearest(fields \ {f}, centre, n - 1)

\* Marching_army_survey._make_obs_list, lines 102-160: the fields of the
\* unmasked healpixels, their mean rewards, the last of the best fields and
\* the npick fields nearest to it, listed as raster_sort orders them (by
\* position).  np.min of no field raises ValueError (line 115).
Marching(reward) ==
    LET unmasked == Unmasked(reward)
        unique_fields == {hp2fields[c] : c \in unmasked}
        of(f) == {c \in unmasked : hp2fields[c] = f}
        \* mean(f) >= mean(g)
        NotBelow(f, g) ==
            SumOver(of(f), reward) * Cardinality(of(g))
               >= SumOver(of(g), reward) * Cardinality(of(f))
        field_max == SetMax({f \in unique_fields : \A g \in unique_fields : NotBelow(f, g)})
    IN IF unmasked = {}
       THEN [exc |-> "ValueError", reward |-> reward, result |-> << >>]
       ELSE [exc |-> "none", reward |-> reward,
             result |-> SetToSeq(Nearest(unique_fields, field_max, npick))]

\* a sequence back to front (observations[::-1])
Reverse(q) == [i \in 1 .. Len(q) |-> q[Len(q) + 1 - i]]

\* Marching_experiment, lines 186-192: the method the class defines under the
\* name __call_ (one trailing underscore)
Marching_experiment__call_(observations) ==
    LET traced == observations \o Reverse(observations)
    IN traced \o traced

\* what calling a Marching_experiment runs: the class defines no __call__,
\* so Marching_army_survey.__call__ (lines 170-172) is the one inherited
Marching_experiment__call__(observations) == observations

\* Marching_army_survey_pairs.__call__, lines 199-205
Marching_army_survey_pairs__call__(observations) == observations \o observations

\* Vary_expt_survey.calc_reward_function, lines 1033-1085, from the composite
\* reward of lines 1010-1028 of a feasible survey; alt_max and az_range are
\* set so that they cut nothing.  Returns self.reward and self.best_fields.
\* The maximum of a map with every entry masked selects no healpixel and
\* np.min of none raises ValueError (line 1038).
VaryExpt(reward) ==
    LET unmasked == Unmasked(reward)
        peak_reward == SetMin({c \in unmasked :
                                  reward[c] = SetMax({reward[d] : d \in unmasked})})
        cut == [c \in Cells |->
                   IF RingDist(c, peak_reward) > search_radius THEN UNSEEN ELSE reward[c]]
        potential_hp == Unmasked(cut)
        ufields == {hp2fields[c] : c \in potential_hp}
        reward_by_field == [f \in ufields |->
                               max_reject({cut[c] : c \in {d \in potential_hp : hp2fields[d] = f}})]
        ordered == TopFields(ufields, reward_by_field, Cardinality(ufields))
        fit == IF Len(ordered) < block_time THEN Len(ordered) ELSE block_time
    IN IF unmasked = {}
       THEN [exc |-> "ValueError", reward |-> reward, result |-> << >>]
       ELSE [exc |-> "none", reward |-> cut, result |-> SubSeq(ordered, 1, fit)]

(***************************************************************************)
(* Vary_expt_survey with its exposure times (surveys/to_port.py 848-1175). *)
(* Times are in one unit (the source mixes days, minutes and seconds and   *)
(* converts); a block time is kept in sixths of the unit, so that the time *)
(* left divided by 1, 2 and 3 stays an integer.                            *)
(***************************************************************************)
min_exptime == 1
max_exptime == 2
slew_approx == 1
read_approx == 1
nexp == 1
filter_change_approx == 1
min_pair_time == 3
ideal_pair_time == 4
MaxAvailable == 13     \* the longest time left before twilight

\* the depth differences of a healpixel
ShallowDepth == -1
DepthLevels == {ShallowDepth, 0}

\* utils.scale_exptime: the exposure time that makes up for a depth
\* difference, kept within min_exptime and max_exptime
scale_exptime(m5diff, low, high) ==
    LET wanted == low - m5diff
    IN IF wanted < low THEN low ELSE IF wanted > high THEN high ELSE wanted

\* lines 943-946, self.time_needed
VaryTimeNeeded(second) ==
    IF second # None THEN 2 * min_pair_time + read_approx + filter_change_approx
    ELSE min_pair_time + read_approx

\* lines 964-982, self.block_time in sixths: the scalar ideal_pair_time, or
\* the array possible_times[np.where(diff == np.min(diff))]
_set_block_time(available_time) ==
    LET possible_times == [k \in 1 .. 3 |-> (6 * available_time) \div k]
        diff == [k \in 1 .. 3 |->
                    IF 6 * ideal_pair_time >= possible_times[k]
                    THEN 6 * ideal_pair_time - possible_times[k]
                    ELSE possible_times[k] - 6 * ideal_pair_time]
        nearest == SetToSeq({k \in 1 .. 3 : diff[k] = SetMin(Range(diff))})
    IN IF available_time >= 3 * ideal_pair_time
       THEN <<6 * ideal_pair_time>>
       ELSE [i \in 1 .. Len(nearest) |-> possible_times[nearest[i]]]

\* lines 984-1001 with the filters mounted and the sun below its limit
VaryFeasible(st) == st.available >= VaryTimeNeeded(st.filter2)

\* a survey that has computed nothing yet
NewVary(reward, m5_filter1, m5_filter2, available, second) ==
    [map |-> reward, m5_filter1 |-> m5_filter1, m5_filter2 |-> m5_filter2,
     available |-> available, filter2 |-> second,
     reward |-> 0, reward_checked |-> FALSE, block_time |-> << >>, sized |-> FALSE,
     best_fields |-> << >>, exptimes_f1 |-> << >>, exptimes_f2 |-> << >>,
     counter |-> 1]

\* the first n entries of a list (a[0:n])
Slice(a, n) == SubSeq(a, 1, IF n < Len(a) THEN n ELSE Len(a))

\* Vary_expt_survey.calc_reward_function, lines 1003-1085, on the composite
\* reward st.map (no entry masked, alt_max and az_range cutting nothing).
\* Returns the survey as the call leaves it and the exception raised.
VaryCalcReward(st) ==
    LET block_time_now == _set_block_time(st.available)
        timed == [st EXCEPT !.block_time = block_time_now, !.reward_checked = TRUE]
        unmasked == Unmasked(st.map)
        peak_reward == SetMin({c \in unmasked :
                                  st.map[c] = SetMax({st.map[d] : d \in unmasked})})
        cut == [c \in Cells |->
                   IF RingDist(c, peak_reward) > search_radius THEN UNSEEN ELSE st.map[c]]
        potential_hp == Unmasked(cut)
        of(f) == {c \in potential_hp : hp2fields[c] = f}
        \* int_binned_stat returns the fields in ascending order
        binned == SetToSeq({hp2fields[c] : c \in potential_hp})
        reward_by_field == [f \in Range(binned) |-> max_reject({cut[c] : c \in of(f)})]
        m5_by_field(m5, f) == SumOver(of(f), m5) \div Cardinality(of(f))
        \* lines 1058-1061: ufields and m5_filter1_by_field, highest reward first
        ufields == TopFields(Range(binned), reward_by_field, Len(binned))
        exptime_f1 == [i \in 1 .. Len(ufields) |->
                          scale_exptime(m5_by_field(st.m5_filter1, ufields[i]),
                                        min_exptime, max_exptime)]
        overhead == slew_approx + read_approx * (nexp - 1)
        elapsed == [i \in 1 .. Len(ufields) |-> SeqSum(SubSeq(exptime_f1, 1, i)) + i * overhead]
        n == Len(elapsed)
        m == Len(block_time_now)
        \* line 1066: elapsed <= block_time, the two arrays broadcast
        broadcast == m = 1 \/ n = 1 \/ n = m
        within == IF m = 1 THEN {i \in 1 .. n : 6 * elapsed[i] <= block_time_now[1]}
                  ELSE IF n = m THEN {i \in 1 .. n : 6 * elapsed[i] <= block_time_now[i]}
                  ELSE {j \in 1 .. m : 6 * elapsed[1] <= block_time_now[j]}
        max_indx == SetMax(within)
        \* lines 1074-1079: the second int_binned_stat rebinds ufields to the
        \* ascending list, and the reordering of line 1077 is not assigned
        exptime_f2 == [i \in 1 .. Len(binned) |->
                          scale_exptime(m5_by_field(st.m5_filter2, binned[i]),
                                        min_exptime, max_exptime)]
        kept == IF st.filter2 # None THEN binned ELSE ufields
    IN IF ~VaryFeasible(st)
       THEN [st |-> [timed EXCEPT !.reward = NegInf], exc |-> "none"]
       ELSE IF ~broadcast \/ within = {}
       THEN [st |-> [timed EXCEPT !.reward_checked = FALSE], exc |-> "ValueError"]
       ELSE [st |-> [timed EXCEPT !.reward = SetMax({cut[c] : c \in potential_hp}),
                                  !.sized = TRUE,
                                  !.exptimes_f1 = Slice(exptime_f1, max_indx),
                                  !.exptimes_f2 = IF st.filter2 # None
                                                  THEN Slice(exptime_f2, max_indx) ELSE @,
                                  !.best_fields = Slice(kept, max_indx)],
             exc |-> "none"]

\* an observation with its exposure time
TimedObs(field, filt, exptime, note, bid) ==
    [field |-> field, filter |-> filt, exptime |-> exptime, note |-> note,
     survey_id |-> 1, block_id |-> bid]

\* Vary_expt_survey.__call__, lines 1091-1175, of a survey that tags no
\* field: calc is what lines 1091-1093 leave (the survey and the exception
\* raised, if any), better_order the route tsp_convex returns.  A survey
\* that never sized a block has no best_fields attribute.
VaryCall(calc, current_filter, better_order) ==
    LET c == calc.st
        observations == [i \in 1 .. Len(better_order) |->
                            TimedObs(c.best_fields[better_order[i]], "r",
                                     c.exptimes_f1[better_order[i]], "block, a", c.counter)]
        observations_paired == [i \in 1 .. Len(observations) |->
                                   [observations[i] EXCEPT
                                       !.filter = c.filter2,
                                       !.exptime = c.exptimes_f2[better_order[i]],
                                       !.note = "block, b"]]
        result == IF c.filter2 = None THEN observations
                  ELSE IF current_filter = c.filter2
                  THEN observations_paired \o observations
                  ELSE observations \o observations_paired
    IN IF calc.exc # "none" THEN [st |-> c, exc |-> calc.exc, result |-> << >>]
       ELSE IF ~c.sized THEN [st |-> c, exc |-> "AttributeError", result |-> << >>]
       ELSE [st |-> [c EXCEPT !.counter = @ + 1], exc |-> "none", result |-> result]

(***************************************************************************)
(* The paired survey (surveys/to_port.py, Pairs_different_filters_scripted). *)
(* An entry of its observing_queue is an observation wanted again at the   *)
(* time mjd, within ttol of it.                                            *)
(***************************************************************************)
dt_pair == 2
ttol == 1
MaxPairs == 2      \* entries the observing_queue holds
filt_to_pair == <<"g", "r">>

\* Pairs_survey_scripted.add_observation: the observation wanted again dt
\* after it was made
PairWanted(field, filt, now) == [field |-> field, filter |-> filt, mjd |-> now + dt_pair]

\* the window of an entry has elapsed, is open, or has not yet opened
Elapsed(entry, now) == now > entry.mjd + ttol
InTimeWindow(entry, now) == now >= entry.mjd - ttol /\ now <= entry.mjd + ttol
NotYetOpen(entry, now) == now < entry.mjd - ttol

\* Pairs_survey_scripted._purge_queue: the entries too old to pair up go
_purge_queue(observing_queue, now) ==
    SelectSeq(observing_queue, LAMBDA entry : ~Elapsed(entry, now))

\* Pairs_survey_scripted._check_observation: whether the entry can be
\* observed now, and whether it is in its time window
_check_observation(entry, now, observable) ==
    <<InTimeWindow(entry, now) /\ observable, InTimeWindow(entry, now)>>

\* lines 813-825, np.argmax(proportion): the filter loaded has proportion -1
\* and every other filter a proportion that is not negative, so the first
\* filter that is not the one loaded is taken
SwapFilter(current) ==
    SetMin({i \in 0 .. (Len(filt_to_pair) - 1) :
               filt_to_pair[i + 1] # current
               \/ \A j \in 1 .. Len(filt_to_pair) : filt_to_pair[j] = current})

\* a search that returns the entry and leaves it on the queue
PairsSearchKeep(st, now, current, observable) ==
    LET observing_queue == st.observing_queue
        found == {indx \in DOMAIN observing_queue :
                     _check_observation(observing_queue[indx], now, indx \in observable)[1]}
    IN IF found = {} THEN [st |-> st, result |-> << >>]
       ELSE [st |-> st,
             result |-> <<[observing_queue[SetMin(found)]
                              EXCEPT !.filter = filt_to_pair[st.filter_idx + 1]]>>]

\* lines 803-841: the search of the queue for an entry to pair up
PairsSearch(st, now, current, observable) ==
    LET observing_queue == st.observing_queue
        Check(indx) == _check_observation(observing_queue[indx], now, indx \in observable)
        stops == {indx \in DOMAIN observing_queue : Check(indx)[1] \/ ~Check(indx)[2]}
        Serve(indx) ==
            LET result == observing_queue[indx]
                filter_idx == IF current = result.filter THEN SwapFilter(current)
                              ELSE st.filter_idx
            IN [st |-> [observing_queue |->
                           SubSeq(observing_queue, 1, indx - 1)
                              \o SubSeq(observing_queue, indx + 1, Len(observing_queue)),
                        filter_idx |-> filter_idx],
                result |-> <<[result EXCEPT !.filter = filt_to_pair[filter_idx + 1]]>>]
    IN IF stops # {} /\ Check(SetMin(stops))[1]
       THEN Serve(SetMin(stops))
       ELSE [st |-> st, result |-> << >>]

\* a call that leaves the queue as it finds it before searching it
PairsCallUnpurged(st, now, current, observable) ==
    PairsSearch(st, now, current, observable)

\* Pairs_different_filters_scripted.__call__, lines 800-843: the queue is
\* purged, then the first entry that can be observed is taken off it and
\* returned with the filter to pair in; the search ends at the first entry
\* that is not in its time window.  observable is the set of positions of
\* the purged queue whose entry is observable now.
PairsCall(st, now, current, observable) ==
    PairsSearch([st EXCEPT !.observing_queue = _purge_queue(@, now)],
                now, current, observable)

(***************************************************************************)
(* set_default_nside (utils.py): a function that keeps the default in an   *)
(* attribute of itself.                                                    *)
(***************************************************************************)
\* nside=None, the argument left out (no nside is 0)
NoNside == 0
DefaultNside == 64

\* the arguments callers pass: none, or a valid nside
NsideArgs == {NoNside, 16, 32, DefaultNside, 128}

\* lines 27-31.  fn holds the attributes the function object has and the
\* value of its attribute side; the test is for an attribute named nside,
\* the assignment and the return use the attribute named side
set_default_nside(fn, nside) ==
    LET Assign(value) == [attrs |-> fn.attrs \cup {"side"}, side |-> value]
        after == IF "nside" \notin fn.attrs
                 THEN Assign(IF nside = NoNside THEN DefaultNside ELSE nside)
                 ELSE [attrs |-> fn.attrs, side |-> fn.side]
    IN [attrs |-> after.attrs,
        side |-> after.side,
        exc |-> IF "side" \in after.attrs THEN "none" ELSE "AttributeError",
        ret |-> after.side]

(***************************************************************************)
(* The program state.                                                      *)
(***************************************************************************)
\* utils.sim_runner, line 341: mjd_start=None, and a run not started yet
NoStart == -1
NoRun == [pc |-> "idle", mjd_start |-> NoStart, survey_length |-> 0, end_mjd |-> 0]

VARIABLES
    conditions,        \* the snapshot last broadcast by update_conditions
    queue,             \* Core_scheduler.queue
    survey,            \* per survey: reward_checked, reward, best_fields, counter
    N_obs,             \* per survey: survey_features['N_obs_%i'].feature
    N_obs_count_all,   \* per survey: survey_features['N_obs_count_all_%i'].feature
    bf_result,         \* per survey: the basis function's self.result
    target_maps,       \* the target maps the basis functions are built with
    norm_factor,       \* the norm_factor the basis functions are built with
    raised,            \* the exception that ended the run, or "none"
    last,              \* the last call made on the scheduler and what it returned
    n_added,           \* observations fed back so far
    tm_out,            \* what the direct call of _calc_value just made returned
    scripted,          \* the scripted survey: its reward and its script
    greedy,            \* the single-survey reductions: the reward map they reduce
    pairs,             \* the paired survey: observing_queue and filter_idx
    default_nside,     \* set_default_nside: its attributes and the calls made
    sim                \* sim_runner: where it is, its mjd_start and its end_mjd

vars == <<conditions, queue, survey, N_obs, N_obs_count_all, bf_result,
          target_maps, norm_factor, raised, last, n_added, tm_out, scripted,
          greedy, pairs, default_nside, sim>>

histVars == <<N_obs, N_obs_count_all, bf_result, target_maps, norm_factor>>

\* the target-deficit basis function object of survey sv
Unit(sv) == [N_obs |-> N_obs[sv], N_obs_count_all |-> N_obs_count_all[sv],
             result |-> bf_result[sv], target_maps |-> target_maps,
             norm_factor |-> norm_factor]

\* lines 480-490, basis_value = bf(indx=indx) for the survey's basis functions
\* in order: the sky-quality unit, the target-deficit unit, the avoidance-zone
\* unit.  The first returns a masked array, so from then on self.reward has a
\* mask and the next basis function is asked for the healpixels the reward
\* does not mask (lines 489-490).
BasisValues(sv, cond) ==
    LET sky == [data |-> SkyData(cond.sky), mask |-> SkyMask(cond.sky)]
        zone == [data |-> ZeroMap, mask |-> ZoneMask(cond.zone)]
        indx == SetToSeq({c \in Cells : ~SkyMask(cond.sky)[c]})
        Pack(tm) ==
          [exc |-> tm.exc,
           result |-> tm.result,
           vals |-> <<sky, [data |-> tm.value, mask |-> [c \in Cells |-> FALSE]], zone>>]
    IN Pack(_calc_value(Unit(sv), cond.night, indx))

LastCall(op, polled, winner, produced, ret) ==
    [op |-> op, polled |-> polled, winner |-> winner, produced |-> produced, ret |-> ret,
     again |-> FALSE, dropped |-> << >>, added |-> NoneObs, before |-> ZeroMap,
     route |-> << >>]

NewSurvey == [reward_checked |-> FALSE, reward |-> ScalarReward(0),
              best_fields |-> UnsetFields, counter |-> 1]

\* no direct call of _calc_value has just been made
NoTM == [exc |-> "none", value |-> ZeroMap, indx |-> all_indx]

\* norm_factor, in units of the smallest one used
NormFactors == {1, 2}

(***************************************************************************)
(* Scripted_single_block_survey (surveys/to_port.py), its script set.      *)
(***************************************************************************)
mjd_target == 2
mjd_tol == 1
reward_val == 1000
\* the script handed to set_script
obs_wanted == <<Obs(0, "r", "script", 0, 0), Obs(1, "r", "script", 0, 0)>>

\* Scripted_single_block_survey.calc_reward_function, self.reward after it;
\* scripted.obs_wanted is self.obs_wanted
ScriptedReward(mjd) ==
    LET dt == mjd_target - mjd
        abs_dt == IF dt < 0 THEN -dt ELSE dt
    IN IF abs_dt > mjd_tol \/ Len(scripted.obs_wanted) = 0 THEN NegInf ELSE reward_val

\* == on floats: a NaN equals nothing
FloatEq(a, b) == a # NaN /\ b # NaN /\ a = b

\* Scripted_single_block_survey.__call__, lines 1248-1252: what it returns,
\* self.reward being what calc_reward_function has just left
ScriptedReturn(returned, reward) ==
    IF FloatEq(returned, reward) THEN scripted.obs_wanted ELSE <<NoneObs>>

\* the state after construction, the snapshot and the norm_factor being
\* what the run is configured with
StartOf(norms, reductions, snapshots, built) ==
    /\ conditions \in snapshots
    /\ queue = << >>
    /\ survey = [sv \in built |-> NewSurvey]
    /\ N_obs = [sv \in built |-> [s \in FeatureSeasons(DefaultMaps) |-> ZeroMap]]
    /\ N_obs_count_all = [sv \in built |-> [s \in FeatureSeasons(DefaultMaps) |-> 0]]
    /\ bf_result = [sv \in built |-> ZeroMap]
    /\ target_maps = DefaultMaps
    /\ norm_factor \in norms
    /\ raised = "none"
    /\ last = LastCall("init", FALSE, 0, << >>, NoneObs)
    /\ n_added = 0
    /\ tm_out = NoTM
    /\ scripted = [reward |-> -reward_val, obs_wanted |-> obs_wanted]
    /\ greedy \in reductions
    /\ pairs = [observing_queue |-> << >>, filter_idx |-> 0]
    /\ default_nside = [attrs |-> {}, side |-> 0, calls |-> << >>]
    /\ sim = NoRun

\* the single-survey reductions working on a reward map
StartFor(norms, maps, snapshots, built) == StartOf(norms, [reward : maps], snapshots, built)

\* the surveys built being the scheduler's list
StartAt(norms, maps, snapshots) == StartFor(norms, maps, snapshots, Surveys)

\* the snapshot being one of the catalogue
StartWith(norms, maps) == StartAt(norms, maps, Snapshots)

\* the reductions' reward map being the empty one
Start(norms) == StartWith(norms, {ZeroMap})

Init == Start({1})

(***************************************************************************)
(* Core_scheduler: update_conditions, request_observation, add_observation *)
(* and flush_queue, as sim_runner (utils.py 357-371) and the test drive    *)
(* them.                                                                   *)
(***************************************************************************)
\* the scalar the scheduler compares: the largest unmasked value of the
\* reward a survey returns, negative infinity when there is none
SurveyMax(reward) ==
    IF reward.scalar THEN reward.val
    ELSE LET open == {c \in Cells : ~reward.mask[c]}
         IN IF open = {} THEN NegInf ELSE SetMax({reward.data[c] : c \in open})

\* a tie-break that takes the survey registered last
WinnerLatest(rewards) ==
    LET top == SetMax({rewards[sv] : sv \in Surveys})
    IN SetMax({sv \in Surveys : rewards[sv] = top})

\* the survey asked to produce: the highest reward, the earliest survey
\* among equals
Winner(rewards) ==
    LET top == SetMax({rewards[sv] : sv \in Surveys})
    IN SetMin({sv \in Surveys : rewards[sv] = top})

\* calc_reward_function of survey sv on the current state
SurveyCalc(sv) ==
    LET Pack(bv, r) ==
          [st |-> r.st, exc |-> r.exc,
           result |-> IF _check_feasability(sv, conditions) THEN bv.result
                      ELSE bf_result[sv]]
        Calc(bv) == Pack(bv, calc_reward_function(sv, survey[sv], conditions, bv))
    IN Calc(BasisValues(sv, conditions))

\* every survey's reward is evaluated in list order; an exception ends the loop
PollAll ==
    LET Collect(calc) ==
          LET bad == {sv \in Surveys : calc[sv].exc # "none"}
              stop == IF bad = {} THEN NSurveys + 1 ELSE SetMin(bad)
          IN [exc |-> IF bad = {} THEN "none" ELSE calc[stop].exc,
              st |-> Array([sv \in Surveys |->
                               IF sv <= stop THEN calc[sv].st ELSE survey[sv]]),
              result |-> Array([sv \in Surveys |->
                               IF sv <= stop THEN calc[sv].result ELSE bf_result[sv]])]
    IN Collect(Array([sv \in Surveys |-> SurveyCalc(sv)]))

\* Core_scheduler.update_conditions: the snapshot goes to every survey, which
\* drops its cached reward
UpdateConditions ==
    /\ raised = "none"
    /\ \E snap \in Snapshots :
         /\ snap.mjd >= conditions.mjd      \* the clock does not run backwards
         /\ conditions' = snap
         /\ survey' = [sv \in Surveys |-> [survey[sv] EXCEPT !.reward_checked = FALSE]]
         /\ last' = LastCall("update", FALSE, 0, << >>, last.ret)
    /\ UNCHANGED <<queue, histVars, raised, n_added, tm_out, scripted, greedy, pairs, default_nside, sim>>

\* the blocks the surveys have produced so far (each counter starts at 1)
BlocksProduced(sts) == SeqSum([sv \in DOMAIN sts |-> sts[sv].counter - 1])

\* a queue served from its tail
ServeQueueTail ==
    /\ queue' = SubSeq(queue, 1, Len(queue) - 1)
    /\ last' = LastCall("request", FALSE, 0, << >>, queue[Len(queue)])
    /\ UNCHANGED <<conditions, survey, histVars, raised, n_added, tm_out, scripted, greedy, pairs, default_nside, sim>>

\* request_observation with a pending queue: the head is served
ServeQueue ==
    /\ queue' = Tail(queue)
    /\ last' = LastCall("request", FALSE, 0, << >>, Head(queue))
    /\ UNCHANGED <<conditions, survey, histVars, raised, n_added, tm_out, scripted, greedy, pairs, default_nside, sim>>

\* request_observation with an empty queue: the surveys are polled, the winner
\* produces, and the head of what it produced is served
FillQueue ==
    LET Produce(poll, w, call) ==
          /\ BlocksProduced(survey) < MaxBlocks
          /\ raised' = call.exc
          /\ survey' = [poll.st EXCEPT ![w] = call.st]
          /\ bf_result' = poll.result
          /\ queue' = IF call.result = << >> THEN << >> ELSE Tail(call.result)
          /\ last' = LastCall("request", TRUE, w, call.result,
                              IF call.result = << >> THEN NoneObs ELSE Head(call.result))
          /\ UNCHANGED <<conditions, N_obs, N_obs_count_all, target_maps,
                         norm_factor, n_added, tm_out, scripted, greedy, pairs, default_nside, sim>>
        Ask(poll, w) ==
          \E better_order \in Routes(nvisit_block) :
             Produce(poll, w, BlockCall(w, poll.st[w], conditions,
                                        BasisValues(w, conditions), better_order))
        Fill(poll) ==
          IF poll.exc # "none"
          THEN /\ raised' = poll.exc
               /\ survey' = poll.st
               /\ bf_result' = poll.result
               /\ last' = LastCall("request", TRUE, 0, << >>, NoneObs)
               /\ UNCHANGED <<conditions, queue, N_obs, N_obs_count_all, target_maps,
                              norm_factor, n_added, tm_out, scripted, greedy, pairs, default_nside, sim>>
          ELSE Ask(poll, Winner(Array([sv \in Surveys |-> SurveyMax(poll.st[sv].reward)])))
    IN Fill(PollAll)

RequestObservation ==
    /\ raised = "none"
    /\ IF queue # << >> THEN ServeQueue ELSE FillQueue

\* what the first survey's unit returns over the whole map in this state
TMValue == _calc_value(Unit(1), conditions.night, all_indx).value

\* add_observation(obs): every survey hands the observation to its basis
\* functions' features and drops its cached reward
Record(obs) ==
    LET indx == {c \in Cells : hp2fields[c] = obs.field}
    IN /\ N_obs' = [sv \in Surveys |->
                      FeatureAddNobs(N_obs[sv], filtername(sv), obs.filter,
                                     conditions.night, indx)]
       /\ N_obs_count_all' = [sv \in Surveys |->
                      FeatureAddCount(N_obs_count_all[sv], conditions.night, indx)]
       /\ survey' = [sv \in Surveys |-> [survey[sv] EXCEPT !.reward_checked = FALSE]]
       /\ n_added' = n_added + 1
       /\ last' = [LastCall("add", FALSE, 0, << >>, NoneObs)
                      EXCEPT !.added = obs, !.before = TMValue]
       /\ tm_out' = NoTM
       /\ UNCHANGED <<conditions, queue, bf_result, target_maps, norm_factor, raised,
                      scripted, greedy, pairs, default_nside, sim>>

\* sim_runner, utils.py 366-368: the observation last served was observed
\* and is fed back
AddObservation ==
    /\ raised = "none"
    /\ last.ret # NoneObs
    /\ n_added < MaxObs
    /\ Record(last.ret)

\* add_observation of any completed observation, at most limit of them
RecordObservation(limit) ==
    /\ raised = "none"
    /\ n_added < limit
    /\ \E field \in FieldIds, filt \in Filters :
          Record(Obs(field, filt, survey_note, 1, 1))

\* a flush that drops the head only
FlushQueueHead ==
    /\ raised = "none"
    /\ queue' = IF queue = << >> THEN << >> ELSE Tail(queue)
    /\ last' = [LastCall("flush", FALSE, 0, << >>, last.ret) EXCEPT !.dropped = queue]
    /\ UNCHANGED <<conditions, survey, histVars, raised, n_added, tm_out, scripted, greedy, pairs, default_nside, sim>>

\* flush_queue
FlushQueue ==
    /\ raised = "none"
    /\ queue' = << >>
    /\ last' = [LastCall("flush", FALSE, 0, << >>, last.ret) EXCEPT !.dropped = queue]
    /\ UNCHANGED <<conditions, survey, histVars, raised, n_added, tm_out, scripted, greedy, pairs, default_nside, sim>>

\* a survey's calc_reward_function called on its own
CalcReward(sv) ==
    /\ raised = "none"
    /\ LET Store(r) == /\ survey' = [survey EXCEPT ![sv] = r.st]
                        /\ bf_result' = [bf_result EXCEPT ![sv] = r.result]
                        /\ raised' = r.exc
       IN Store(SurveyCalc(sv))
    /\ last' = [LastCall("calc", FALSE, sv, << >>, last.ret)
                   EXCEPT !.again = (last.op = "calc" /\ last.winner = sv)]
    /\ UNCHANGED <<conditions, queue, N_obs, N_obs_count_all, target_maps, norm_factor,
                   n_added, tm_out, scripted, greedy, pairs, default_nside, sim>>

\* survey sv called for its block on its own, tsp_convex returning better_order
CallSurvey(sv) ==
    /\ raised = "none"
    /\ BlocksProduced(survey) < MaxBlocks
    /\ \E better_order \in Routes(nvisit_block) :
          LET Store(bv, call) ==
                /\ survey' = [survey EXCEPT ![sv] = call.st]
                /\ raised' = call.exc
                /\ bf_result' = [bf_result EXCEPT ![sv] =
                                    IF ~survey[sv].reward_checked
                                       /\ _check_feasability(sv, conditions)
                                    THEN bv.result ELSE @]
                /\ last' = [LastCall("call", FALSE, sv, call.result, last.ret)
                               EXCEPT !.route = better_order]
              Call(bv) == Store(bv, BlockCall(sv, survey[sv], conditions, bv, better_order))
          IN Call(BasisValues(sv, conditions))
    /\ UNCHANGED <<conditions, queue, N_obs, N_obs_count_all, target_maps, norm_factor,
                   n_added, tm_out, scripted, greedy, pairs, default_nside, sim>>

\* a reduction applied to the reward map: the outcome r of the call is
\* recorded as the list returned and the exception raised
Reduce(op, r, filt) ==
    /\ greedy' = [greedy EXCEPT !.reward = r.reward]
    /\ raised' = r.exc
    /\ last' = LastCall(op, FALSE, 0, FieldObs(r.result, filt), last.ret)
    /\ UNCHANGED <<conditions, queue, survey, histVars, n_added, tm_out, scripted,
                   pairs, default_nside, sim>>

CallSimple == raised = "none" /\ Reduce("simple", SimpleGreedy(greedy.reward), "r")
CallComcam == raised = "none" /\ Reduce("comcam", Comcam(greedy.reward), "r")
CallSmooth ==
    /\ raised = "none"
    /\ \E on_empty \in {"raise", "nan"} :
          Reduce("smooth", SmoothArea(greedy.reward, on_empty), "r")
CallMarching == raised = "none" /\ Reduce("marching", Marching(greedy.reward), "y")
CalcVary == raised = "none" /\ Reduce("vary", VaryExpt(greedy.reward), "r")

\* a Marching_experiment and a Marching_army_survey_pairs called
CallMarchingExperiment ==
    /\ raised = "none"
    /\ Reduce("marching_experiment",
              [Marching(greedy.reward) EXCEPT !.result = Marching_experiment__call__(@)], "y")
CallMarchingPairs ==
    /\ raised = "none"
    /\ Reduce("marching_pairs",
              [Marching(greedy.reward) EXCEPT !.result = Marching_army_survey_pairs__call__(@)],
              "y")

\* the scripted survey's calc_reward_function called on its own
ScriptedCalc ==
    /\ raised = "none"
    /\ scripted' = [scripted EXCEPT !.reward = ScriptedReward(conditions.mjd)]
    /\ last' = [LastCall("scalc", FALSE, 0, << >>, last.ret)
                   EXCEPT !.again = (last.op = "scalc")]
    /\ UNCHANGED <<conditions, queue, survey, histVars, raised, n_added, tm_out, greedy, pairs, default_nside, sim>>

\* set_script(obs_wanted), lines 1236-1246, with the script or an empty one
SetScript ==
    /\ raised = "none"
    /\ \E wanted \in {<< >>, obs_wanted} :
          scripted' = [scripted EXCEPT !.obs_wanted = wanted]
    /\ last' = LastCall("script", FALSE, 0, << >>, last.ret)
    /\ UNCHANGED <<conditions, queue, survey, histVars, raised, n_added, tm_out, greedy, pairs, default_nside, sim>>

\* the scripted survey called for its observations, lines 1248-1252
ScriptedCall ==
    /\ raised = "none"
    /\ scripted' = [scripted EXCEPT !.reward = ScriptedReward(conditions.mjd)]
    /\ last' = LastCall("scall", FALSE, 0,
                        ScriptedReturn(ScriptedReward(conditions.mjd),
                                       ScriptedReward(conditions.mjd)),
                        last.ret)
    /\ UNCHANGED <<conditions, queue, survey, histVars, raised, n_added, tm_out, greedy, pairs, default_nside, sim>>

\* the target-deficit unit of the first survey called on its own, over the
\* whole map
CallTargetMap ==
    /\ raised = "none"
    /\ LET Store(tm) == /\ tm_out' = [exc |-> tm.exc, value |-> tm.value, indx |-> all_indx]
                         /\ bf_result' = [bf_result EXCEPT ![1] = tm.result]
       IN Store(_calc_value(Unit(1), conditions.night, all_indx))
    /\ last' = LastCall("tm", FALSE, 0, << >>, last.ret)
    /\ UNCHANGED <<conditions, queue, survey, N_obs, N_obs_count_all, target_maps,
                   norm_factor, raised, n_added, scripted, greedy, pairs, default_nside, sim>>

\* the lists of healpixels the unit is asked for when not the whole map
RestrictedLists == {<<0>>, <<0, 1, 2>>, <<1, 3>>}

\* the target-deficit unit of the first survey called on its own for a
\* restricted list of healpixels
CallTargetMapAt ==
    /\ raised = "none"
    /\ \E indx \in RestrictedLists :
          LET Store(tm) == /\ tm_out' = [exc |-> tm.exc, value |-> tm.value, indx |-> indx]
                           /\ bf_result' = [bf_result EXCEPT ![1] = tm.result]
          IN Store(_calc_value(Unit(1), conditions.night, indx))
    /\ last' = LastCall("tm_at", FALSE, 0, << >>, last.ret)
    /\ UNCHANGED <<conditions, queue, survey, N_obs, N_obs_count_all, target_maps,
                   norm_factor, raised, n_added, scripted, greedy, pairs, default_nside, sim>>

Next ==
    \/ UpdateConditions
    \/ RequestObservation
    \/ AddObservation
    \/ FlushQueue

Spec == Init /\ [][Next]_vars

\* the reward computations of the block surveys and of the scripted survey
\* called any number of times between updates
NextRepeat ==
    \/ UpdateConditions
    \/ \E sv \in Surveys : CalcReward(sv)
    \/ ScriptedCalc
    \/ SetScript
    \/ ScriptedCall

SpecRepeat == Init /\ [][NextRepeat]_vars

\* the block surveys computing their rewards and called for their blocks,
\* each on its own
NextBlock ==
    \/ UpdateConditions
    \/ \E sv \in Surveys : CalcReward(sv)
    \/ \E sv \in Surveys : CallSurvey(sv)

SpecBlock == Init /\ [][NextBlock]_vars

\* the block surveys computing their rewards under the gate's snapshots
InitGate == StartAt({1}, {ZeroMap}, GateSnapshots)

NextGate == \E sv \in Surveys : CalcReward(sv)

SpecGate == InitGate /\ [][NextGate]_vars

\* the block surveys computing their rewards under the alt,az masks' snapshots
InitMask == StartAt({1}, {ZeroMap}, MaskSnapshots)

NextMask == \E sv \in Surveys : CalcReward(sv)

SpecMask == InitMask /\ [][NextMask]_vars

\* the scheduler's surveys and a tagged pair, each called for its block
BuiltSurveys == 1 .. (NSurveys + 1)

InitLabel == StartFor({1}, {ZeroMap}, MaskSnapshots, BuiltSurveys)

NextLabel == \E sv \in BuiltSurveys : CallSurvey(sv)

SpecLabel == InitLabel /\ [][NextLabel]_vars

\* the single-survey reductions applied to every reward map of RewardMaps
InitReduce == StartWith({1}, RewardMaps) /\ conditions.mjd = 0

NextReduce ==
    \/ CallSimple
    \/ CallComcam
    \/ CallSmooth
    \/ CallMarching
    \/ CalcVary

SpecReduce == InitReduce /\ [][NextReduce]_vars

\* the marching surveys called on every reward map of RewardMaps
NextMarch ==
    \/ CallMarching
    \/ CallMarchingExperiment
    \/ CallMarchingPairs

SpecMarch == InitReduce /\ [][NextMarch]_vars

\* the composite rewards and depth differences a Vary_expt_survey is given:
\* every healpixel of a field alike, at most one field shallow
FieldMaps(levels) ==
    {[c \in Cells |-> by[hp2fields[c]]] : by \in [FieldIds -> levels]}
DepthMaps ==
    {[c \in Cells |-> IF hp2fields[c] \in shallow THEN ShallowDepth ELSE 0] :
        shallow \in {{}} \cup {{f} : f \in FieldIds}}
VaryStates ==
    {NewVary(reward, m5_filter1, m5_filter2, available, second) :
        reward \in FieldMaps({1, 2}), m5_filter1 \in DepthMaps, m5_filter2 \in DepthMaps,
        available \in 0 .. MaxAvailable, second \in {None, "g"}}

\* calc_reward_function and __call__ of a Vary_expt_survey
VaryStep(op, r, produced) ==
    /\ greedy' = r.st
    /\ raised' = r.exc
    /\ last' = LastCall(op, FALSE, 0, produced, last.ret)
    /\ UNCHANGED <<conditions, queue, survey, histVars, n_added, tm_out, scripted,
                   pairs, default_nside, sim>>
CalcVaryExpt ==
    /\ raised = "none"
    /\ last.op = "init"
    /\ \E r \in {VaryCalcReward(greedy)} : VaryStep("vary_calc", r, << >>)
CallVaryExpt ==
    /\ raised = "none"
    /\ last.op # "vary_call"
    /\ \E calc \in {IF greedy.reward_checked THEN [st |-> greedy, exc |-> "none"]
                    ELSE VaryCalcReward(greedy)} :
       \E current_filter \in {"r", "g"}, better_order \in Routes(Len(calc.st.best_fields)) :
          \E r \in {VaryCall(calc, current_filter, better_order)} :
             VaryStep("vary_call", r, r.result)

InitVary == StartOf({1}, VaryStates, {SnapOf(0)}, Surveys)
NextVary == CalcVaryExpt \/ CallVaryExpt
SpecVary == InitVary /\ [][NextVary]_vars

\* an observation in the filter loaded, a filter to pair, is completed: the
\* paired survey queues it to be taken again
PairsAddObservation ==
    /\ raised = "none"
    /\ Len(pairs.observing_queue) < MaxPairs
    /\ conditions.current_filter \in Range(filt_to_pair)
    /\ \E field \in {hp2fields[0], hp2fields[NCell - 1]} :
          /\ pairs' = [pairs EXCEPT !.observing_queue =
                          Append(@, PairWanted(field, conditions.current_filter,
                                               conditions.mjd))]
          /\ last' = LastCall("pairs_add", FALSE, 0, << >>, last.ret)
    /\ UNCHANGED <<conditions, queue, survey, histVars, raised, n_added, tm_out,
                   scripted, greedy, default_nside, sim>>

\* the paired survey is called for its observations
PairsRequest ==
    /\ raised = "none"
    /\ \E observable \in SUBSET (1 .. MaxPairs) :
          LET Store(call) ==
                /\ pairs' = call.st
                /\ last' = [LastCall("pairs", FALSE, 0, call.result, last.ret)
                               EXCEPT !.route = SetToSeq(observable),
                                      !.dropped =
                                  SelectSeq(pairs.observing_queue,
                                            LAMBDA entry : entry \notin Range(call.st.observing_queue)
                                                           /\ call.result # <<entry>>
                                                           /\ \A e \in Range(call.result) :
                                                                 e.mjd # entry.mjd \/ e.field # entry.field)]
          IN Store(PairsCall(pairs, conditions.mjd, conditions.current_filter, observable))
    /\ UNCHANGED <<conditions, queue, survey, histVars, raised, n_added, tm_out,
                   scripted, greedy, default_nside, sim>>

\* the paired survey as the clock advances
NextPairs ==
    \/ UpdateConditions
    \/ PairsAddObservation
    \/ PairsRequest

SpecPairs == Init /\ [][NextPairs]_vars

\* sim_runner (utils.py 357-371).  The loop's position is read off the last
\* call made: update_conditions (line 357, then line 371 of every turn) is
\* followed by request_observation (364), which is followed by the
\* observatory's attempt (365) and add_observation (367) or flush_queue (370).
\* an attempt that stands for a second one on the same request
AfterRequestOrAdd == last.op \in {"request", "add"}

AfterRequest == last.op = "request"
AfterUpdate == last.op \in {"init", "update"}
AfterAttempt == last.op \in {"add", "flush"}

\* line 364
RunRequest == AfterUpdate /\ RequestObservation
\* lines 365-368: the observatory observed what was asked for
RunAdd == AfterRequest /\ AddObservation
\* lines 365, 369-370: the observatory returned None
RunFlush == AfterRequest /\ FlushQueue
\* line 371
RunUpdate == AfterAttempt /\ UpdateConditions

NextRun ==
    \/ RunRequest
    \/ RunAdd
    \/ RunFlush
    \/ RunUpdate

SpecRun == Init /\ [][NextRun]_vars

(***************************************************************************)
(* utils.sim_runner (lines 341-384) from its first line to its return.     *)
(* The local mjd is the observatory's clock as the snapshot last broadcast *)
(* carries it (lines 357, 371-372).                                        *)
(***************************************************************************)
MaxLength == 3      \* the longest survey_length
MaxStart == 2       \* the latest mjd_start

\* lines 346-361.  With mjd_start given, line 350 reads the local mjd, which
\* nothing has bound yet: UnboundLocalError.
SimStart ==
    /\ raised = "none"
    /\ sim.pc = "idle"
    /\ \E mjd_start \in {NoStart} \cup (0 .. MaxStart), survey_length \in 1 .. MaxLength :
          IF mjd_start = NoStart
          THEN /\ sim' = [pc |-> "loop", mjd_start |-> conditions.mjd,
                          survey_length |-> survey_length,
                          end_mjd |-> conditions.mjd + survey_length]
               /\ survey' = [sv \in Surveys |-> [survey[sv] EXCEPT !.reward_checked = FALSE]]
               /\ last' = LastCall("update", FALSE, 0, << >>, last.ret)
               /\ UNCHANGED raised
          ELSE /\ sim' = [pc |-> "raised", mjd_start |-> mjd_start,
                          survey_length |-> survey_length, end_mjd |-> 0]
               /\ raised' = "UnboundLocalError"
               /\ UNCHANGED <<survey, last>>
    /\ UNCHANGED <<conditions, queue, histVars, n_added, tm_out, scripted, greedy, pairs,
                   default_nside>>

\* line 363, the loop entered once more, and line 364
SimRequest == sim.pc = "loop" /\ conditions.mjd < sim.end_mjd /\ RunRequest

\* line 363, the loop left, and lines 379-384: np.array(observations)[:, 0]
\* of no observation has no second axis
SimReturn ==
    /\ raised = "none"
    /\ sim.pc = "loop" /\ AfterUpdate /\ conditions.mjd >= sim.end_mjd
    /\ sim' = [sim EXCEPT !.pc = "done"]
    /\ raised' = IF n_added = 0 THEN "IndexError" ELSE "none"
    /\ UNCHANGED <<conditions, queue, survey, histVars, last, n_added, tm_out, scripted,
                   greedy, pairs, default_nside>>

InitSim == Init /\ conditions.mjd <= MaxStart

NextSim ==
    \/ SimStart
    \/ SimRequest
    \/ RunAdd
    \/ RunFlush
    \/ RunUpdate
    \/ SimReturn

SpecSim == InitSim /\ [][NextSim]_vars

\* the target-deficit unit driven on its own
\* (the unit reads the night of the snapshot only: one snapshot per night)
InitTM == Start(NormFactors) /\ conditions.mjd <= MaxNight

NextTM ==
    \/ RecordObservation(MaxAdd)
    \/ CallTargetMap

SpecTM == InitTM /\ [][NextTM]_vars

\* the unit asked for the whole map and for restricted lists of healpixels
NextTMAt ==
    \/ RecordObservation(MaxAddAt)
    \/ CallTargetMap
    \/ CallTargetMapAt

SpecTMAt == InitTM /\ [][NextTMAt]_vars

\* one call of set_default_nside, by the configuration, by a constructor
\* left without nside, or by a default argument when the module is loaded
SetDefaultNside ==
    /\ raised = "none"
    /\ Len(default_nside.calls) < MaxCalls
    /\ \E nside \in NsideArgs :
          LET Store(out) ==
                /\ default_nside' =
                      [attrs |-> out.attrs, side |-> out.side,
                       calls |-> Append(default_nside.calls,
                                        [nside |-> nside, ret |-> out.ret])]
                /\ raised' = out.exc
          IN Store(set_default_nside(default_nside, nside))
    /\ last' = LastCall("nside", FALSE, 0, << >>, last.ret)
    /\ UNCHANGED <<conditions, queue, survey, histVars, n_added, tm_out, scripted,
                   greedy, pairs, sim>>

NextNside == SetDefaultNside

SpecNside == Init /\ [][NextNside]_vars

(***************************************************************************)
(* The scheduler's protocol (specification Spec).                          *)
(***************************************************************************)
\* the scalar reward the scheduler holds for survey sv
RewardOf(sv) == SurveyMax(survey[sv].reward)

\* the last call was a request that found the queue empty and polled
Polled == last.op = "request" /\ last.polled

\* C1: a request that finds the queue empty evaluates every survey, asks the
\* survey with the maximum reward to produce, makes a non-empty list the
\* queue and returns its head; it returns none when every survey reports
\* negative infinity.
C1_RequestPollsAndServes ==
    (Polled /\ raised = "none") =>
        /\ \A sv \in Surveys : survey[sv].reward_checked
        /\ \A sv \in Surveys : RewardOf(sv) <= RewardOf(last.winner)
        /\ last.produced # << >> =>
              (last.ret = Head(last.produced) /\ queue = Tail(last.produced))
        /\ (\A sv \in Surveys : RewardOf(sv) = NegInf) => last.ret = NoneObs

\* C2: after flush the queue is empty whatever it held, and a request that
\* finds the queue empty polls every survey and serves the head of what the
\* winner then produces.
C2_FlushThenFreshPoll ==
    /\ [](last.op = "flush" => queue = << >>)
    /\ [][(queue = << >> /\ last'.op = "request") =>
            /\ last'.polled
            /\ raised' = "none" =>
                 /\ \A sv \in Surveys : survey'[sv].reward_checked
                 /\ last'.ret = IF last'.produced = << >> THEN NoneObs
                                ELSE Head(last'.produced)]_vars

\* C2 witness: a flush has discarded a queue that held observations
C2_Witness == last.op = "flush" /\ last.dropped # << >> /\ queue = << >>

\* C3: when the gate of the survey asked to produce is false, its reward is
\* negative infinity and it produces nothing.
C3_GateFalseProducesNothing ==
    (Polled /\ raised = "none" /\ ~_check_feasability(last.winner, conditions)) =>
        (RewardOf(last.winner) = NegInf /\ last.produced = << >>)

C6_ServedInOrder ==
    [][/\ (queue # << >> /\ last'.op = "request") =>
            /\ ~last'.polled
            /\ last'.ret = Head(queue)
            /\ queue' = Tail(queue)
            /\ survey' = survey
       /\ (last'.op = "request" /\ last'.polled /\ last'.produced # << >>) =>
            /\ last'.ret = Head(last'.produced)
            /\ queue' = Tail(last'.produced)]_vars

\* C6 witness: the last observation of a pair of blocks has been served from
\* the queue
C6_Witness ==
    /\ last.op = "request" /\ ~last.polled /\ queue = << >>
    /\ last.ret.note = "block, b"

\* the reward survey sv computes from the current snapshot and history alone
FreshReward(sv) ==
    calc_reward_function(sv, NewSurvey, conditions, BasisValues(sv, conditions)).st.reward

C9_HistoryOnlyByAdd ==
    [][histVars' # histVars => last'.op = "add"]_vars

\* C9 witness: a block was produced and flushed and nothing has been counted
C9_Witness ==
    /\ last.op = "flush" /\ last.dropped # << >> /\ n_added = 0
    /\ \A sv \in Surveys : \A s \in DOMAIN N_obs_count_all[sv] :
          N_obs_count_all[sv][s] = 0 /\ N_obs[sv][s] = ZeroMap

(***************************************************************************)
(* The surveys' reward computation (specification SpecRepeat).            *)
(***************************************************************************)
\* the last call was calc_reward_function of survey sv and returned a map
CalcMap(sv) ==
    /\ last.op = "calc" /\ last.winner = sv /\ raised = "none"
    /\ ~survey[sv].reward.scalar

\* basis function i of survey sv returns the sentinel at healpixel c, or
\* reports it masked
Sentinel(sv, i, c) ==
    LET val == BasisValues(sv, conditions).vals[i]
    IN val.data[c] = UNSEEN \/ val.mask[c]

\* C4: wherever one of the basis functions returns the sentinel or a masked
\* entry, the composite reward map is the sentinel.
C4_MaskMonotone ==
    \A sv \in Surveys :
       CalcMap(sv) =>
          \A c \in Cells :
             (\E i \in DOMAIN basis_weights(sv) : Sentinel(sv, i, c))
                => survey[sv].reward.data[c] = UNSEEN

\* C4 witness: a map was computed with a healpixel where only the first
\* basis function returns the sentinel, a healpixel only the last reports
\* masked, and a healpixel that keeps a reward
C4_Witness ==
    \E sv \in Surveys :
       /\ CalcMap(sv)
       /\ \E c \in Cells : Sentinel(sv, 1, c) /\ ~Sentinel(sv, 2, c) /\ ~Sentinel(sv, 3, c)
       /\ \E c \in Cells : Sentinel(sv, 3, c) /\ ~Sentinel(sv, 1, c) /\ ~Sentinel(sv, 2, c)
       /\ \E c \in Cells : survey[sv].reward.data[c] # UNSEEN

\* C8: a reward computation that repeats the one just made, nothing in
\* between, leaves the reward, the selected block and the block counter as
\* the first left them.
C8_CalcIdempotent ==
    [][/\ \A sv \in Surveys :
            (last'.op = "calc" /\ last'.winner = sv /\ last'.again /\ raised' = "none")
               => survey'[sv] = survey[sv]
       /\ (last'.op = "scalc" /\ last'.again) => scripted' = scripted]_vars

\* C8 witness: a survey that selected a block has computed its reward twice
\* in a row
C8_Witness ==
    /\ last.op = "calc" /\ last.again /\ raised = "none"
    /\ survey[last.winner].best_fields.kind = "fields"
    /\ ~survey[last.winner].reward.scalar

(***************************************************************************)
(* The target-deficit basis function (specification SpecTM).               *)
(***************************************************************************)
\* the last call was _calc_value of the first survey's unit and returned
CalledTM == last.op = "tm" /\ tm_out.exc = "none"

\* the season healpixel c is in on the night of the snapshot
SeasonNow(c) == season_calc(conditions.night, c)

\* C10: at a healpixel that is not out of bounds the unit returns
\* target x (observations of the healpixel's season over the whole map)
\* x norm_factor - (observations at the healpixel in that season).
C10_TargetDeficit ==
    CalledTM =>
       \A c \in Cells :
          target_maps[1][c] # 0 =>
             tm_out.value[c] =
                MapOf(target_maps, SeasonNow(c))[c] * N_obs_count_all[1][SeasonNow(c)]
                   * norm_factor
                - N_obs[1][SeasonNow(c)][c]

\* C10 witness: target 1, norm_factor 1, five observations in the season and
\* none at the healpixel: the unit returns 5
C10_Witness ==
    /\ CalledTM /\ norm_factor = 1
    /\ \E c \in Cells :
          /\ target_maps[1][c] # 0
          /\ MapOf(target_maps, SeasonNow(c))[c] = 1
          /\ N_obs_count_all[1][SeasonNow(c)] = 5
          /\ N_obs[1][SeasonNow(c)][c] = 0
          /\ tm_out.value[c] = 5

\* the healpixels of an observation of the first survey's filter that are
\* not out of bounds
Counted(obs) ==
    {c \in Cells : /\ hp2fields[c] = obs.field
                   /\ obs.filter = filtername(1)
                   /\ c \notin out_of_bounds_area(target_maps)}

\* C11 as stated: at a healpixel of an observation of the survey's filter,
\* the value the unit returns right after add_observation is one less than
\* the value it returned right before (last.before).
C11_DeficitDropsByOne ==
    last.op = "add" =>
       LET Drop(after) == \A c \in Counted(last.added) : after[c] = last.before[c] - 1
       IN Drop(TMValue)

\* C11 amended: add_observation raises the healpixel's count by one and the
\* season's total by one, so the value the unit returns right after is the
\* value right before plus target x norm_factor, minus one.
C11_DeficitShift ==
    last.op = "add" =>
       LET Shift(after) ==
              \A c \in Counted(last.added) :
                 after[c] = last.before[c]
                      + MapOf(target_maps, SeasonNow(c))[c] * norm_factor - 1
       IN Shift(TMValue)

\* C11 witness: an observation of the survey's filter has been added at a
\* healpixel with target 1 under norm_factor 1, where the unit returns after
\* the add what it returned before it (0 with an empty history)
C11_Witness ==
    /\ last.op = "add" /\ n_added = 1 /\ norm_factor = 1
    /\ \E c \in Counted(last.added) :
          /\ MapOf(target_maps, SeasonNow(c))[c] = 1
          /\ N_obs[1][SeasonNow(c)][c] = 1
          /\ last.before[c] = 0
          /\ TMValue[c] = 0

(***************************************************************************)
(* The simulation runner (specification SpecRun).                          *)
(***************************************************************************)
\* C12: in the runner a request follows an update, an update follows the
\* add or the flush of the turn before, and a request is followed by exactly
\* one of add_observation of what was returned, counted once, or
\* flush_queue, before the next update and request.
C12_TickSequence ==
    [][/\ last'.op = "request" => last.op \in {"init", "update"}
       /\ last'.op = "update" => last.op \in {"add", "flush"}
       /\ last.op = "request" => last'.op \in {"add", "flush"}
       /\ last'.op = "flush" => (last.op = "request" /\ histVars' = histVars)
       /\ last'.op = "add" =>
             /\ last.op = "request"
             /\ last'.added = last.ret
             /\ n_added' = n_added + 1
             /\ \A sv \in Surveys :
                   N_obs_count_all'[sv] =
                      FeatureAddCount(N_obs_count_all[sv], conditions.night,
                                      {c \in Cells : hp2fields[c] = last.ret.field})]_vars

\* C12 witness: after a turn that ended in add_observation and the update
\* that closes it, the next request has been served from the queue
C12_Witness ==
    /\ last.op = "request" /\ ~last.polled /\ raised = "none"
    /\ n_added = 1

(***************************************************************************)
(* The scripted survey (specification SpecRepeat).                         *)
(***************************************************************************)
\* the snapshot's time is within mjd_tol of mjd_target
InWindow ==
    /\ conditions.mjd - mjd_target <= mjd_tol
    /\ mjd_target - conditions.mjd <= mjd_tol

\* C13: called within mjd_tol of mjd_target with a script set, the scripted
\* survey reports reward_val and returns the script unchanged; called at
\* any other time, or with an empty script, it reports negative infinity
\* and returns no observations.
C13_ScriptedReplay ==
    last.op = "scall" =>
       IF InWindow /\ scripted.obs_wanted # << >>
       THEN scripted.reward = reward_val /\ last.produced = scripted.obs_wanted
       ELSE scripted.reward = NegInf /\ last.produced = << >>

\* C26: called for a restricted list of healpixels the unit raises nothing
\* and returns, at each healpixel of the list, the value the call for the
\* whole map returns under the same snapshot and history.
C26_RestrictedAgrees ==
    last.op = "tm_at" =>
       /\ tm_out.exc = "none"
       /\ LET Same(full) == \A j \in DOMAIN tm_out.indx :
                               tm_out.value[tm_out.indx[j]] = full[tm_out.indx[j]]
          IN Same(TMValue)

\* C25: at every healpixel whose target is zero in the target map of the
\* season the healpixel is in, the unit returns hp.UNSEEN.
C25_ZeroTargetIsSentinel ==
    CalledTM =>
       \A c \in Cells :
          MapOf(target_maps, SeasonNow(c))[c] = 0 => tm_out.value[c] = UNSEEN

\* the season number of healpixel c before the clamp and the modulo
EpochBefore(c) == (conditions.night + day_offset[c]) \div SeasonLength

\* the value at c is the deficit computed from the map given and from the
\* counters of the season given
ScoredWith(c, map, season) ==
    /\ season \in DOMAIN N_obs[1] /\ season \in DOMAIN N_obs_count_all[1]
    /\ tm_out.value[c] =
          map[c] * N_obs_count_all[1][season] * norm_factor - N_obs[1][season][c]

\* the clamp at healpixel c: past max_season the last map with the counters
\* of season -1, otherwise the map and the counters of the season modulo
ClampedScore(c) ==
    IF EpochBefore(c) > max_season
    THEN ScoredWith(c, target_maps[Len(target_maps)], -1)
    ELSE ScoredWith(c, target_maps[(EpochBefore(c) % season_modulo) + 1],
                    EpochBefore(c) % season_modulo)

FreshBlobs(sv) ==
    LET Loop(composite) == Array([m \in 1 .. NMasks |-> Blob(m, composite, conditions)])
    IN Loop(CompositeReward(sv, NewSurvey, BasisValues(sv, conditions).vals))

\* survey sv has just computed its reward from a composite map: it is
\* feasible, its basis functions returned and no value is infinite
Computed(sv) ==
    /\ last.op \in {"calc", "call"} /\ last.winner = sv
    /\ _check_feasability(sv, conditions)
    /\ survey[sv].reward_checked
    /\ raised \notin {"IndexError", "KeyError"}
    /\ ~survey[sv].reward.scalar

\* survey sv has just been called and returned a list
Called(sv) == last.op = "call" /\ last.winner = sv /\ raised = "none"

\* the records of the list returned that are in filter filt, and their fields
Pass(filt) == SelectSeq(last.produced, LAMBDA o : o.filter = filt)
PassFields(filt) == [i \in 1 .. Len(Pass(filt)) |-> Pass(filt)[i].field]

\* the filters survey sv observes a block in
PassFilters(sv) == {filtername(sv)} \cup (IF filter2(sv) = None THEN {} ELSE {filter2(sv)})

\* the selected fields in the order of the route
RouteFields(sv) ==
    [i \in 1 .. Len(last.route) |-> survey[sv].best_fields.f[last.route[i]]]

\* the alt,az mask selected is one that reaches nvisit_block fields
SelectedReaches(sv, blobs) ==
    /\ survey[sv].best_fields.kind = "fields"
    /\ Len(survey[sv].best_fields.f) = nvisit_block
    /\ \E m \in DOMAIN blobs : /\ blobs[m].potential > NegInf
                                 /\ blobs[m].pointings = survey[sv].best_fields
                                 /\ blobs[m].map = survey[sv].reward.data

\* C14 as stated: when some alt,az mask reaches nvisit_block fields the mask
\* selected is one that does, and the list returned holds exactly
\* nvisit_block records per filter pass, in the order of the route.
C14_MaskedBlock ==
    \A sv \in Surveys :
       LET Holds(blobs) ==
             (Computed(sv) /\ \E m \in DOMAIN blobs : blobs[m].potential > NegInf) =>
                /\ SelectedReaches(sv, blobs)
                /\ Called(sv) =>
                      \A filt \in PassFilters(sv) :
                         /\ Len(Pass(filt)) = nvisit_block
                         /\ PassFields(filt) = RouteFields(sv)
       IN Holds(FreshBlobs(sv))

\* C14 amended: when some alt,az mask reaches nvisit_block fields the mask
\* selected is one that does, and each filter pass of the list returned
\* holds, in the order of the route, the selected fields that are not
\* tagged 0: exactly nvisit_block records when no selected field is.
C14_MaskedBlockKept ==
    \A sv \in Surveys :
       LET Kept(f) == ~tag_fields(sv) \/ TagOf(sv, f) # 0
           Holds(blobs) ==
             (Computed(sv) /\ \E m \in DOMAIN blobs : blobs[m].potential > NegInf) =>
                /\ SelectedReaches(sv, blobs)
                /\ Called(sv) =>
                      \A filt \in PassFilters(sv) :
                         /\ PassFields(filt) = SelectSeq(RouteFields(sv), Kept)
                         /\ (\A i \in DOMAIN RouteFields(sv) : Kept(RouteFields(sv)[i]))
                               => Len(Pass(filt)) = nvisit_block
       IN Holds(FreshBlobs(sv))

\* C14 witness: a survey was called where the first alt,az mask reaches
\* nvisit_block fields and the second does not, and returned a pair of
\* passes of nvisit_block records each on a route that is not the identity
C14_Witness ==
    \E sv \in Surveys :
       /\ Computed(sv) /\ Called(sv)
       /\ FreshBlobs(sv)[1].potential > NegInf
       /\ FreshBlobs(sv)[2].potential = NegInf
       /\ Len(last.produced) = 2 * nvisit_block
       /\ last.route[1] # 1

\* survey sv has just computed its reward and no alt,az mask reaches
\* nvisit_block fields
Degenerate(sv, blobs) ==
    Computed(sv) /\ \A m \in DOMAIN blobs : blobs[m].potential = NegInf

\* C15: when the gate is true and no alt,az mask reaches nvisit_block
\* fields, the reward is negative infinity, the map the survey returns has
\* no finite healpixel, and the survey called returns an empty list.
C15_DegenerateIsInfeasible ==
    \A sv \in Surveys :
       LET Holds(blobs) ==
             Degenerate(sv, blobs) =>
                /\ SurveyMax(survey[sv].reward) = NegInf
                /\ \A c \in Cells : survey[sv].reward.data[c] \in {UNSEEN, NegInf}
                /\ survey[sv].best_fields.kind # "zero"
                /\ last.op = "call" => (raised = "none" /\ last.produced = << >>)
       IN Holds(FreshBlobs(sv))

\* C21: with tag_fields on, no record of the list a survey returns is for a
\* field tagged 0 and every record carries the tag of its field as
\* survey_id; with tag_fields off every record has survey_id 1.
C21_TagPropagation ==
    \A sv \in Surveys :
       Called(sv) =>
          \A i \in DOMAIN last.produced :
             LET field == last.produced[i].field
                 tags == {tag_map(sv)[c] : c \in {d \in Cells : hp2fields[d] = field}}
                 tag == CHOOSE t \in tags : \A u \in tags : t <= u
             IN IF tag_fields(sv)
                THEN tag # 0 /\ last.produced[i].survey_id = tag
                ELSE last.produced[i].survey_id = 1

\* C21 witness: a survey with tag_fields on was called with a field tagged 0
\* among its best fields and returned a list that is not empty
C21_Witness ==
    \E sv \in Surveys :
       /\ Called(sv) /\ tag_fields(sv)
       /\ last.produced # << >>
       /\ \E i \in DOMAIN RouteFields(sv) : TagOf(sv, RouteFields(sv)[i]) = 0

\* the filters of the records i .. j of the list returned, and their fields
FiltersIn(i, j) == {last.produced[k].filter : k \in i .. j}
FieldsIn(i, j) == [k \in 1 .. (j - i + 1) |-> last.produced[i + k - 1].field]

\* C22: the list a survey with filter2 returns is two passes over the same
\* fields in the order of the route, one in filtername and one in filter2;
\* the pass in filter2 comes first exactly when filter2 is the filter
\* loaded, so that the first record is in the filter loaded when that is one
\* of the two.
C22_PairedOrdering ==
    \A sv \in Surveys :
       (Called(sv) /\ filter2(sv) # None) =>
          LET n == Len(last.produced) \div 2
              loaded == conditions.current_filter
          IN /\ Len(last.produced) = 2 * n
             /\ n > 0
             /\ FieldsIn(1, n) = RouteFields(sv)
             /\ FieldsIn(n + 1, 2 * n) = RouteFields(sv)
             /\ FiltersIn(1, n) \cup FiltersIn(n + 1, 2 * n) = {filtername(sv), filter2(sv)}
             /\ Cardinality(FiltersIn(1, n)) = 1
             /\ Cardinality(FiltersIn(n + 1, 2 * n)) = 1
             /\ FiltersIn(1, n) = {filter2(sv)} <=> loaded = filter2(sv)
             /\ loaded \in {filtername(sv), filter2(sv)} => last.produced[1].filter = loaded

\* C22 witness: a survey with filter2 was called with filter2 loaded and
\* returned the pass in filter2 first, on a route that is not the identity
C22_Witness ==
    \E sv \in Surveys :
       /\ Called(sv) /\ filter2(sv) # None
       /\ conditions.current_filter = filter2(sv)
       /\ last.produced # << >>
       /\ last.produced[1].filter = filter2(sv)
       /\ last.route[1] # 1

(***************************************************************************)
(* The single-survey reductions (specification SpecReduce).                *)
(***************************************************************************)
\* the fields, or healpixels, of the list the last call returned
Emitted == [i \in 1 .. Len(last.produced) |-> last.produced[i].field]

\* C16: with every healpixel of the reward map the sentinel, the region
\* reduction, the marching reduction and the varying-exposure reduction
\* raise nothing and return an empty list.
C16_EmptySurfaceInfeasible ==
    (last.op \in {"smooth", "marching", "vary"} /\ Unmasked(greedy.reward) = {}) =>
        (raised = "none" /\ last.produced = << >>)

\* C17: no field returned by Simple_greedy_survey_fields has its healpixel
\* at the sentinel, and every field returned by Greedy_survey_comcam has a
\* healpixel that is not the sentinel.
C17_NoSentinelSelected ==
    /\ last.op = "simple" =>
          \A i \in DOMAIN Emitted : greedy.reward[field_hp[Emitted[i]]] # UNSEEN
    /\ last.op = "comcam" =>
          \A i \in DOMAIN Emitted :
             \E c \in Unmasked(greedy.reward) : hp2fields[c] = Emitted[i]

\* C18: Simple_greedy_survey_fields returns its fields by descending reward,
\* the lower field index first among fields of equal reward, and no field
\* left out has a higher reward than one returned.
C18_DescendingLowestFirst ==
    last.op = "simple" =>
       LET r(f) == greedy.reward[field_hp[f]]
       IN /\ Len(Emitted) = block_size
          /\ \A i, j \in DOMAIN Emitted :
                i < j => (r(Emitted[i]) > r(Emitted[j])
                          \/ (r(Emitted[i]) = r(Emitted[j]) /\ Emitted[i] < Emitted[j]))
          /\ \A f \in FieldIds \ Range(Emitted) :
                \A i \in DOMAIN Emitted : r(f) <= r(Emitted[i])

\* the healpixels that qualify for the region: not the sentinel, within
\* max_region_size of the first healpixel of maximum reward, and at or above
\* the percentile_clip percentile of the rewards that are not the sentinel
Qualifies(c) ==
    LET reward == greedy.reward
        top == CHOOSE d \in Cells :
                  /\ \A e \in Cells : reward[e] <= reward[d]
                  /\ \A e \in Cells : reward[e] = reward[d] => d <= e
        NotAbove(v) == Cardinality({d \in Unmasked(reward) : reward[d] <= v})
        n == Cardinality(Unmasked(reward))
        \* the percentile lies at or below the lowest reward whose last rank
        \* reaches percentile_clip / 100 * (n - 1), and above every lower one
        AtOrAbove(v) ==
           \E u \in {reward[d] : d \in Unmasked(reward)} :
              /\ 100 * (NotAbove(u) - 1) >= percentile_clip * (n - 1)
              /\ u <= v
    IN /\ reward[c] # UNSEEN
       /\ RingDist(c, top) <= max_region_size
       /\ AtOrAbove(reward[c])

\* C19: the healpixels the region reduction hands to the placement all
\* qualify, are at most block_size, are all that qualify when no more than
\* block_size do, and no healpixel left out has a higher reward than one
\* kept.
C19_RegionBlock ==
    (last.op = "smooth" /\ raised = "none" /\ Unmasked(greedy.reward) # {}) =>
       LET kept == Range(Emitted)
           qualify == {c \in Cells : Qualifies(c)}
       IN /\ kept \subseteq qualify
          /\ Cardinality(kept) <= block_size
          /\ Cardinality(kept) = Len(Emitted)
          /\ Cardinality(qualify) <= block_size => kept = qualify
          /\ Cardinality(qualify) > block_size => Cardinality(kept) = block_size
          /\ \A c \in kept, d \in qualify \ kept :
                greedy.reward[d] <= greedy.reward[c]

\* C19 witness: more healpixels than block_size qualify, with different
\* rewards, and some healpixel that is not the sentinel is too far from the
\* maximum and one is below the percentile
C19_Witness ==
    /\ last.op = "smooth" /\ raised = "none"
    /\ Len(Emitted) = block_size
    /\ \E c, d \in Cells : /\ Qualifies(c) /\ Qualifies(d)
                            /\ greedy.reward[c] # greedy.reward[d]
                            /\ d \notin Range(Emitted)
    /\ \E c \in Unmasked(greedy.reward), top \in Cells :
          /\ greedy.reward[top] = 3
          /\ \A d \in Cells : greedy.reward[d] = 3 => top <= d
          /\ RingDist(c, top) > max_region_size
    /\ \E c \in Unmasked(greedy.reward) : greedy.reward[c] = 1 /\ ~Qualifies(c)

(***************************************************************************)
(* An infinite composite reward (specification Spec).                      *)
(***************************************************************************)
\* the feasible surveys whose composite reward holds an infinite value at a
\* healpixel that is not masked, under the snapshot in force
InfSurveys ==
    {sv \in Surveys :
        /\ _check_feasability(sv, conditions)
        /\ AnyInf(CompositeReward(sv, NewSurvey, BasisValues(sv, conditions).vals))}

\* C20: when no basis function raises and the composite reward of a feasible
\* survey holds an infinite value, a request that polls raises nothing, the
\* survey reports positive infinity and the survey asked to produce is one
\* reporting positive infinity.
C20_InfiniteRewardWins ==
    (/\ Polled
     /\ InfSurveys # {}
     /\ \A sv \in Surveys :
           _check_feasability(sv, conditions) => BasisValues(sv, conditions).exc = "none") =>
        /\ raised = "none"
        /\ \A sv \in InfSurveys : RewardOf(sv) = PosInf
        /\ last.winner \in Surveys /\ RewardOf(last.winner) = PosInf

(***************************************************************************)
(* The paired survey's queue (specification SpecPairs).                    *)
(***************************************************************************)
\* C23: a call of the paired survey takes off the queue every entry whose
\* window has elapsed and returns none of them, so that none is returned
\* later, and leaves on the queue every entry whose window has not opened.
C23_ElapsedPurged ==
    [][last'.op = "pairs" =>
         LET now == conditions.mjd
             before == Range(pairs.observing_queue)
             after == Range(pairs'.observing_queue)
             returned == last'.produced
         IN /\ \A entry \in before : Elapsed(entry, now) => entry \notin after
            /\ \A entry \in after : ~Elapsed(entry, now)
            /\ \A i \in DOMAIN returned :
                  \E entry \in before : /\ ~Elapsed(entry, now)
                                         /\ entry.mjd = returned[i].mjd
                                         /\ entry.field = returned[i].field
            /\ \A entry \in before : NotYetOpen(entry, now) => entry \in after]_vars

\* C23 witness: a call found an entry whose window had elapsed and one whose
\* window had not opened, dropped the first and kept the second
C23_Witness ==
    /\ last.op = "pairs"
    /\ last.produced = << >>
    /\ last.dropped # << >>
    /\ \A i \in DOMAIN last.dropped : Elapsed(last.dropped[i], conditions.mjd)
    /\ Len(pairs.observing_queue) = 1
    /\ NotYetOpen(pairs.observing_queue[1], conditions.mjd)

(***************************************************************************)
(* The default nside (specification SpecNside).                            *)
(***************************************************************************)
\* C28: once a first call has given an nside, every later call, with no
\* argument or with another one, returns the nside of the first call.
C28_DefaultSetOnce ==
    LET calls == default_nside.calls
    IN (calls # << >> /\ calls[1].nside # NoNside) =>
          \A i \in DOMAIN calls : calls[i].ret = calls[1].nside

(***************************************************************************)
(* The feasibility gate (specification SpecGate).                          *)
(***************************************************************************)
\* every filter of filtername, and of filter2 when it is set, is mounted, the
\* sun is not above the limit and the time left is at least time_needed
GateOpen(sv) ==
    /\ filtername(sv) \in conditions.mounted
    /\ filter2(sv) # None => filter2(sv) \in conditions.mounted
    /\ ~(conditions.sunAlt > sun_alt_limit)
    /\ conditions.next_twilight_start - conditions.mjd >= time_needed(sv)

\* C29: the gate of a block survey is true exactly when its filters are
\* mounted, the sun is not above sun_alt_limit and the time left before the
\* next twilight is at least time_needed: a survey that has computed its
\* reward holds negative infinity exactly when one of the three fails.
C29_FeasibilityGate ==
    \A sv \in Surveys :
       /\ _check_feasability(sv, conditions) <=> GateOpen(sv)
       /\ (last.op = "calc" /\ last.winner = sv) =>
             IF GateOpen(sv)
             THEN raised # "none" \/ survey[sv].reward # ScalarReward(NegInf)
             ELSE raised = "none" /\ survey[sv].reward = ScalarReward(NegInf)

\* C29 witness: the paired survey computed a reward with both filters
\* mounted, the sun exactly at the limit and exactly the time needed left
C29_Witness ==
    /\ last.op = "calc" /\ last.winner = 1 /\ raised = "none"
    /\ filter2(1) # None
    /\ conditions.sunAlt = sun_alt_limit
    /\ conditions.next_twilight_start - conditions.mjd = time_needed(1)
    /\ GateOpen(1)
    /\ survey[1].reward # ScalarReward(NegInf)

(***************************************************************************)
(* The choice of the alt,az mask (specification SpecMask).                 *)
(***************************************************************************)
\* the composite reward of survey sv under the snapshot in force
Composite(sv) == CompositeReward(sv, NewSurvey, BasisValues(sv, conditions).vals)

\* the healpixels alt,az mask m leaves open in the composite reward
OpenIn(m, composite) ==
    {c \in Cells : /\ c \in mask_to_radec(m, conditions)
                    /\ composite.data[c] # UNSEEN /\ ~composite.mask[c]}

\* the reward of a field: the highest reward of its healpixels
FieldReward(composite) ==
    [f \in FieldIds |-> max_reject({composite.data[c] : c \in {d \in Cells : hp2fields[d] = f}})]

\* the fields alt,az mask m reaches with a reward above negative infinity
Reached(m, composite) ==
    {f \in {hp2fields[c] : c \in OpenIn(m, composite)} : FieldReward(composite)[f] > NegInf}

\* T holds nvisit_block fields of F and no field of F left out has a higher
\* reward than one of T
IsTop(T, F, r) ==
    /\ T \subseteq F /\ Cardinality(T) = nvisit_block
    /\ \A f \in T : \A g \in F \ T : r[f] >= r[g]

\* the sum of the nvisit_block highest field rewards under alt,az mask m,
\* negative infinity when the mask reaches fewer fields
MaskScore(m, composite) ==
    LET F == Reached(m, composite)
        r == FieldReward(composite)
        Sum(T) == VSum([i \in 1 .. Cardinality(T) |-> r[SetToSeq(T)[i]]])
    IN IF Cardinality(F) < nvisit_block THEN NegInf
       ELSE Sum(CHOOSE T \in SUBSET F : IsTop(T, F, r))

\* the alt,az mask with the highest score, the lowest-indexed among equals
Selected(m, composite) ==
    /\ \A n \in 1 .. NMasks : MaskScore(n, composite) <= MaskScore(m, composite)
    /\ \A n \in 1 .. (m - 1) : MaskScore(n, composite) < MaskScore(m, composite)

\* C30: a survey that has computed its reward, some alt,az mask reaching
\* nvisit_block fields, has selected the mask whose nvisit_block highest
\* field rewards have the highest sum, the lowest-indexed among equal sums;
\* best_fields are nvisit_block highest fields of that mask and the reward
\* map is the composite reward inside that mask.
C30_BestMask ==
    \A sv \in Surveys :
       LET Holds(composite) ==
             (Computed(sv) /\ \E m \in 1 .. NMasks : MaskScore(m, composite) > NegInf) =>
                \E m \in 1 .. NMasks :
                   /\ Selected(m, composite)
                   /\ survey[sv].best_fields.kind = "fields"
                   /\ Len(survey[sv].best_fields.f) = nvisit_block
                   /\ IsTop(Range(survey[sv].best_fields.f), Reached(m, composite),
                            FieldReward(composite))
                   /\ \A c \in Cells :
                         survey[sv].reward.data[c] =
                            IF c \in OpenIn(m, composite) THEN composite.data[c] ELSE UNSEEN
       IN Holds(Composite(sv))

\* C30 witness: both alt,az masks reach nvisit_block fields with the same
\* sum and the first is the one selected, its fields not all in the second
C30_Witness ==
    \E sv \in Surveys :
       /\ Computed(sv) /\ raised = "none"
       /\ MaskScore(1, Composite(sv)) > NegInf
       /\ MaskScore(2, Composite(sv)) = MaskScore(1, Composite(sv))
       /\ survey[sv].best_fields.kind = "fields"
       /\ Range(survey[sv].best_fields.f) \subseteq Reached(1, Composite(sv))
       /\ Range(survey[sv].best_fields.f) \ Reached(2, Composite(sv)) # {}

(***************************************************************************)
(* The block a survey returns (specification SpecBlock).                   *)
(***************************************************************************)
\* the fields calc_reward_function selects under the snapshot in force
FreshFields(sv) ==
    calc_reward_function(sv, NewSurvey, conditions, BasisValues(sv, conditions)).st.best_fields

\* the fields of the records of the list returned
EmittedFields == {last.produced[i].field : i \in DOMAIN last.produced}

\* C31: the fields of the list a survey returns are exactly the fields its
\* reward computation selects under the snapshot in force (those tagged 0
\* left out), never fields selected under an earlier snapshot.
C31_EmitsFreshFields ==
    \A sv \in Surveys :
       Called(sv) =>
          /\ FreshFields(sv).kind = "fields"
          /\ EmittedFields =
                {f \in Range(FreshFields(sv).f) : ~tag_fields(sv) \/ TagOf(sv, f) # 0}

\* C33: the counters start at 1; a call that returns a list gives every
\* record the block_id the survey's counter holds, which is at least 1, and
\* leaves the counter one larger; no other step changes a counter, so that
\* the block_ids of a survey's successive lists are 1, 2, 3, ...
C33_BlockIds ==
    /\ \A sv \in Surveys : survey[sv].counter = 1
    /\ [][\A sv \in Surveys :
            IF last'.op = "call" /\ last'.winner = sv /\ raised' = "none"
            THEN /\ survey[sv].counter >= 1
                 /\ survey'[sv].counter = survey[sv].counter + 1
                 /\ \A i \in DOMAIN last'.produced :
                       last'.produced[i].block_id = survey[sv].counter
            ELSE survey'[sv].counter = survey[sv].counter]_vars

\* C33 witness: a survey has returned its second block, a pair, every
\* record of which has block_id 2
C33_Witness ==
    \E sv \in Surveys :
       /\ Called(sv) /\ survey[sv].counter = 3
       /\ Len(last.produced) = 2 * nvisit_block
       /\ \A i \in DOMAIN last.produced : last.produced[i].block_id = 2

(***************************************************************************)
(* The notes of a pair (specification SpecLabel).                          *)
(***************************************************************************)
\* C32: a survey with filter2 set that has selected its fields returns,
\* whatever the tags of the fields, a list whose first pass carries the
\* note 'block, a' and whose second pass carries 'block, b', and the
\* labelling raises nothing when fields tagged 0 were left out.
C32_PassesLabelled ==
    \A sv \in DOMAIN survey :
       (/\ last.op = "call" /\ last.winner = sv
        /\ filter2(sv) # None
        /\ survey[sv].best_fields.kind = "fields") =>
          /\ raised = "none"
          /\ \A i \in DOMAIN last.produced :
                last.produced[i].note =
                   IF 2 * i <= Len(last.produced) THEN "block, a" ELSE "block, b"

(***************************************************************************)
(* The pair the paired survey returns (specification SpecPairs).           *)
(***************************************************************************)
\* the entries of the queue the record returned was made from
QueuedFor(record, observing_queue) ==
    {entry \in Range(observing_queue) :
        entry.mjd = record.mjd /\ entry.field = record.field}

\* C34: with more than one filter to pair in, the filter of the record a
\* call returns differs from the filter of the queued observation it was
\* made from, whether the filter loaded is that filter or another one.
C34_PairInOtherFilter ==
    [][(last'.op = "pairs" /\ Len(filt_to_pair) > 1) =>
          \A i \in DOMAIN last'.produced :
             \A entry \in QueuedFor(last'.produced[i], pairs.observing_queue) :
                last'.produced[i].filter # entry.filter]_vars

\* a sequence without its k-th entry
Without(q, k) == SubSeq(q, 1, k - 1) \o SubSeq(q, k + 1, Len(q))

\* C35: a call returns at most one record.  Of the queue without its elapsed
\* entries, the entries before the first one outside its time window are
\* scanned: when one of them is observable the first such is returned and
\* taken off the queue, the others keeping their order; otherwise nothing
\* is returned and the queue is left without its elapsed entries only.
C35_OneFromQueue ==
    [][last'.op = "pairs" =>
         LET now == conditions.mjd
             q == SelectSeq(pairs.observing_queue, LAMBDA entry : now <= entry.mjd + ttol)
             outside == {i \in DOMAIN q : now < q[i].mjd - ttol \/ now > q[i].mjd + ttol}
             scanned == {i \in DOMAIN q : \A j \in outside : i < j}
             found == scanned \cap Range(last'.route)
             returned == last'.produced
         IN /\ Len(returned) <= 1
            /\ IF found = {}
               THEN returned = << >> /\ pairs'.observing_queue = q
               ELSE \E k \in found :
                       /\ \A j \in found : k <= j
                       /\ Len(returned) = 1
                       /\ returned[1].field = q[k].field /\ returned[1].mjd = q[k].mjd
                       /\ pairs'.observing_queue = Without(q, k)]_vars

\* C35 witness: of two entries in their windows the first could not be
\* observed: the second was returned and the first is still on the queue
C35_Witness ==
    /\ last.op = "pairs" /\ last.route = <<2>>
    /\ Len(last.produced) = 1
    /\ Len(pairs.observing_queue) = 1
    /\ InTimeWindow(pairs.observing_queue[1], conditions.mjd)
    /\ last.produced[1].mjd > pairs.observing_queue[1].mjd

(***************************************************************************)
(* The marching surveys (specification SpecMarch).                         *)
(***************************************************************************)
\* the block a marching survey picks from the reward map
PickedBlock == FieldObs(Marching(greedy.reward).result, "y")

\* C36: a Marching_experiment called returns the picked block, the block
\* back to front, and the two again (four times the fields picked); a
\* Marching_army_survey_pairs called returns the picked block twice over.
C36_MarchingLists ==
    /\ (last.op = "marching_experiment" /\ raised = "none") =>
          last.produced = PickedBlock \o Reverse(PickedBlock)
                             \o PickedBlock \o Reverse(PickedBlock)
    /\ (last.op = "marching_pairs" /\ raised = "none") =>
          last.produced = PickedBlock \o PickedBlock

(***************************************************************************)
(* The block of a Vary_expt_survey (specification SpecVary).               *)
(***************************************************************************)
\* the reward of a field of the survey: the best of its healpixels within
\* search_radius of the peak
VaryFieldReward(f) ==
    LET peak == SetMin({c \in Cells : greedy.map[c] = SetMax(Range(greedy.map))})
    IN max_reject({IF RingDist(c, peak) > search_radius THEN UNSEEN ELSE greedy.map[c] :
                      c \in {d \in Cells : hp2fields[d] = f}})

\* the fields the survey can pick from
VaryCandidates == {f \in FieldIds : VaryFieldReward(f) # NegInf}

\* the exposure a field needs in each filter, and what a visit to it costs
ExposureIn(m5, f) == scale_exptime(m5[field_hp[f]], min_exptime, max_exptime)
VisitCost(f) == ExposureIn(greedy.m5_filter1, f) + slew_approx + read_approx * (nexp - 1)

\* the block time the time left calls for, in sixths
WantedBlockTime ==
    LET left == greedy.available
        Off(k) == IF 6 * ideal_pair_time >= (6 * left) \div k
                  THEN 6 * ideal_pair_time - (6 * left) \div k
                  ELSE (6 * left) \div k - 6 * ideal_pair_time
    IN IF left >= 3 * ideal_pair_time THEN {6 * ideal_pair_time}
       ELSE {(6 * left) \div k : k \in {j \in 1 .. 3 : \A i \in 1 .. 3 : Off(j) <= Off(i)}}

\* C37: the fields a Vary_expt_survey keeps are the best of its candidates,
\* listed by descending reward, as many as fit: their visits (exposure plus
\* slew and read overhead) take no longer than block_time, and a next
\* best field would not fit; block_time is ideal_pair_time when three ideal
\* blocks fit in the time left and else the time left over 1, 2 or 3 that
\* is closest to ideal_pair_time.
C37_BlockSizing ==
    (last.op = "vary_calc" /\ raised = "none" /\ greedy.sized) =>
       LET kept == greedy.best_fields
           rest == VaryCandidates \ Range(kept)
           Spent(fields) == SeqSum([i \in DOMAIN fields |-> VisitCost(fields[i])])
       IN /\ Len(greedy.block_time) = 1
          /\ greedy.block_time[1] \in WantedBlockTime
          /\ \A i, j \in DOMAIN kept :
                i < j => VaryFieldReward(kept[i]) >= VaryFieldReward(kept[j])
          /\ \A i \in DOMAIN kept : \A f \in rest :
                VaryFieldReward(kept[i]) >= VaryFieldReward(f)
          /\ 6 * Spent(kept) <= greedy.block_time[1]
          /\ rest # {} =>
                \E f \in rest :
                   /\ \A g \in rest : VaryFieldReward(f) >= VaryFieldReward(g)
                   /\ 6 * (Spent(kept) + VisitCost(f)) > greedy.block_time[1]

\* C38: in the pair a Vary_expt_survey with a second filter returns, the
\* visit to a field in the first filter is exposed as that field's depth
\* in the first filter asks, and the visit in the second filter as its
\* depth in the second filter asks.
C38_ExposureOfField ==
    (last.op = "vary_call" /\ raised = "none" /\ greedy.filter2 # None) =>
       \A i \in DOMAIN last.produced :
          LET visit == last.produced[i]
          IN visit.exptime =
                IF visit.filter = greedy.filter2
                THEN ExposureIn(greedy.m5_filter2, visit.field)
                ELSE ExposureIn(greedy.m5_filter1, visit.field)

(***************************************************************************)
(* The override of an infinite reward (specification SpecMask).            *)
(***************************************************************************)
\* C39: a Block_survey takes the positive-infinity override (its reward
\* becomes the scalar +inf) only when some healpixel of its composite
\* reward that is not masked is positive infinity; a healpixel at negative
\* infinity does not trigger it.
C39_OverrideOnlyPosInf ==
    \A sv \in Surveys :
       (survey[sv].reward_checked /\ survey[sv].reward = ScalarReward(PosInf)) =>
          \E c \in Cells : ~Composite(sv).mask[c] /\ Composite(sv).data[c] = PosInf

(***************************************************************************)
(* sim_runner (specification SpecSim).                                     *)
(***************************************************************************)
\* C40: sim_runner given an mjd_start sets the observatory's clock to it,
\* given none it starts from the clock as it is; in both cases it raises
\* nothing, ends at the start plus survey_length, enters the loop only
\* while the clock is before that end and leaves it only once the clock
\* has reached the end.
C40_RunsFromStartToEnd ==
    [][/\ (sim.pc = "idle" /\ sim'.pc # "idle") =>
             /\ raised' = "none"
             /\ sim'.pc = "loop"
             /\ conditions'.mjd = sim'.mjd_start
             /\ sim'.end_mjd = conditions'.mjd + sim'.survey_length
       /\ (sim.pc = "loop" /\ last'.op = "request") => conditions.mjd < sim.end_mjd
       /\ (sim.pc = "loop" /\ sim'.pc = "done") => conditions.mjd >= sim.end_mjd]_vars

====
